---- MODULE Spec2Model ----
(***************************************************************************)
(* Model of the RAG orchestration core of greenfrog-rag:                   *)
(*   - admission control      backend/app/middleware/queue.py              *)
(*   - pipeline coordinator   backend/app/services/rag_service_v2.py       *)
(*   - request handlers       backend/app/routers/chat_v2.py               *)
(*   - semantic cache         backend/app/services/cache_service.py        *)
(*   - hybrid retriever       backend/app/services/retrieval_service.py    *)
(*   - stream wrapper         backend/app/services/stream_service.py       *)
(* Each component has its own specification over the shared variables.     *)
(***************************************************************************)
EXTENDS Integers, Sequences, FiniteSets, TLC

(***************************************************************************)
(* Program constants                                                       *)
(***************************************************************************)
MAX_CONCURRENT_REQUESTS == 3

MAX_QUEUE_DEPTH == 10

(***************************************************************************)
(* Bounds of the model                                                     *)
(***************************************************************************)
\* number of requests submitted to queued paths
NumRequests == 14

\* largest wait (in abstract ms) a suspended request records
MaxWait == 1

\* requests submitted in a run in which the metrics are reset
NumResetRequests == 6

\* requests submitted in a run with streaming responses
NumStreamRequests == 6

VARIABLES
    \* ---- admission control (queue.py) ----
    stream_bodies,   \* streaming responses whose body is being produced
    llm_semaphore,   \* [value, waiters, woken]: asyncio.Semaphore state
    queue_metrics,   \* the module-level metrics dict
    running,         \* requests inside `async with`, awaiting call_next
    arrived,         \* requests that entered queue_middleware
    rejected,        \* requests answered 429
    acquired,        \* slots handed to requests
    released,        \* slots given back
    finished,        \* wrapped calls that ended (returned, raised, cancelled)
    \* ---- stream wrapper (stream_service.py) ----
    stream_prompt,   \* prompt argument of stream_response
    stream_feed,     \* chunks ollama_service.generate_stream will yield
    stream_feed_end, \* how the feed ends: "ok" or the exception it raises
    stream_pos,      \* chunks consumed so far
    stream_pc,       \* position of the stream_response generator
    stream_frames,   \* SSE events yielded so far
    stream_metrics,  \* StreamMetrics
    stream_full,     \* full_response accumulated by stream_response
    \* ---- hybrid retriever (retrieval_service.py) ----
    hs_k,            \* k argument of hybrid_search
    hs_min_score,    \* min_score argument of hybrid_search
    hs_rrf_k,        \* rrf_k argument of hybrid_search
    hs_weights,      \* weights argument of hybrid_search, in halves
    hs_fused,        \* combined_results as returned by the fusion
    hs_embed_ok,     \* whether the query embedding can be computed
    hs_index_sem,    \* the vector index's answer: "error" or ranked ids
    hs_index_bm25,   \* the keyword index's answer: "error" or ranked ids
    hs_semantic,     \* outcome of the semantic_task ("pending" before)
    hs_bm25,         \* outcome of the bm25_task ("pending" before)
    hs_pc,           \* position of hybrid_search
    hs_result,       \* what hybrid_search returned or raised
    \* ---- pipeline coordinator (rag_service_v2.py, chat_v2.py) ----
    rag,             \* the RAGServiceV2 singleton: use_cache, use_rerank
    redis,           \* the cache store: exact, embedding and response keys
    req,             \* per request slot: position, locals, what it returned
    calls_started,   \* calls of the coordinator started so far
    \* ---- direct calls of the cache (cache_service.py) ----
    cache_call,      \* the last call of CacheService and what it returned
    cache_ops,       \* set and invalidate calls made so far
    cache_cleared,   \* workspaces invalidated as a whole, no set in them since
    set_calls,       \* concurrent calls of CacheService.set: position, arguments
    \* ---- reranker (rerank_service.py) ----
    rr_documents,    \* documents argument of rerank
    rr_top_k,        \* top_k argument of rerank
    rr_min_score,    \* min_score argument of rerank, in tenths
    rr_pc,           \* position of rerank
    rr_result,       \* what rerank returned or raised
    \* ---- keyword index (retrieval_service.py, routers/retrieval.py) ----
    chroma,          \* the records of the ChromaDB collection
    retrieval,       \* the RetrievalService singleton: its index fields
    bm25_seen,       \* what the last keyword search worked on and returned
    reload_seen,     \* outcome of the reload, while no other step has followed it
    \* ---- process environment ----
    max_queue_depth  \* MAX_QUEUE_DEPTH of the environment, read per request

qvars == <<stream_bodies, llm_semaphore, queue_metrics, running, arrived, rejected,
           acquired, released, finished>>

svars == <<stream_prompt, stream_feed, stream_feed_end, stream_pos,
           stream_pc, stream_frames, stream_metrics, stream_full>>

hvars == <<hs_k, hs_min_score, hs_rrf_k, hs_weights, hs_fused,
           hs_embed_ok, hs_index_sem, hs_index_bm25,
           hs_semantic, hs_bm25, hs_pc, hs_result>>

cvars == <<cache_call, cache_ops, cache_cleared, set_calls>>

kvars == <<rr_documents, rr_top_k, rr_min_score, rr_pc, rr_result>>

ivars == <<chroma, retrieval, bm25_seen, reload_seen>>

evars == <<max_queue_depth>>

rvars == <<rag, redis, req, calls_started, cvars, kvars, ivars, evars>>

vars == <<qvars, svars, hvars, rvars>>

(***************************************************************************)
(* State of each component after construction                              *)
(***************************************************************************)
\* queue.py line 75: os.getenv("MAX_QUEUE_DEPTH", "10") with the variable unset
EnvVarsInit == max_queue_depth = MAX_QUEUE_DEPTH

QueueVarsInit ==
    /\ llm_semaphore = [value |-> MAX_CONCURRENT_REQUESTS, waiters |-> 0, woken |-> 0]
    /\ queue_metrics = [total_queued |-> 0, total_processed |-> 0,
                        current_queue_depth |-> 0, max_queue_depth_seen |-> 0,
                        total_wait_time_ms |-> 0]
    /\ stream_bodies = 0
    /\ running = 0
    /\ arrived = 0
    /\ rejected = 0
    /\ acquired = 0
    /\ released = 0
    /\ finished = 0

StreamVarsInit ==
    /\ stream_prompt = <<"p">>
    /\ stream_feed = <<>>
    /\ stream_feed_end = "ok"
    /\ stream_pos = 0
    /\ stream_pc = "idle"
    /\ stream_frames = <<>>
    /\ stream_metrics = [chunk_count |-> 0, token_count |-> 0, total_characters |-> 0]
    /\ stream_full = <<>>

Max(a, b) == IF a >= b THEN a ELSE b

Min(a, b) == IF a <= b THEN a ELSE b

(***************************************************************************)
(* asyncio.Semaphore as used by `async with llm_semaphore`                 *)
(***************************************************************************)
\* mutant: the semaphore never reports itself locked
SemLockedNever(s) == FALSE

\* Semaphore.locked(): no free slot, or somebody is already queued
SemLocked(s) == s.value = 0 \/ s.waiters + s.woken > 0

\* _wake_up_next(): hand one slot to the first suspended waiter
SemWakeUpNext(s) ==
    IF s.waiters > 0 /\ s.value > 0
    THEN [value |-> s.value - 1, waiters |-> s.waiters - 1, woken |-> s.woken + 1]
    ELSE s

\* mutant: the slot is given back and no waiter is woken
SemReleaseNoWake(s) == [s EXCEPT !.value = @ + 1]

\* release(): value += 1, then wake the next waiter
SemRelease(s) == SemWakeUpNext([s EXCEPT !.value = @ + 1])

\* mutant: the slot is given back only when the wrapped call returned
AsyncWithExitNoFinally(s, outcome) ==
    IF outcome = "return" THEN SemRelease(s) ELSE s

\* __aexit__ of `async with llm_semaphore`: release on every outcome
AsyncWithExit(s, outcome) == SemRelease(s)

\* number of slots given back by leaving the `async with` block
SlotsReleased(s, outcome) == AsyncWithExit(s, outcome).value + AsyncWithExit(s, outcome).woken
                               - (s.value + s.woken)

\* outcome of an awaited task: pending, a result list, or an exception
Pending == [state |-> "pending", docs |-> <<>>]

Returned(docs) == [state |-> "ok", docs |-> docs]

Raised == [state |-> "exception", docs |-> <<>>]

HybridVarsInit ==
    /\ hs_k = 1
    /\ hs_min_score = 0
    /\ hs_rrf_k = 60
    /\ hs_weights = <<1, 1>>
    /\ hs_fused = <<>>
    /\ hs_embed_ok = TRUE
    /\ hs_index_sem = [error |-> FALSE, ids |-> <<>>]
    /\ hs_index_bm25 = [error |-> FALSE, ids |-> <<>>]
    /\ hs_semantic = Pending
    /\ hs_bm25 = Pending
    /\ hs_pc = "idle"
    /\ hs_result = [status |-> "none", docs |-> <<>>]

(***************************************************************************)
(* Data of the pipeline coordinator and the semantic cache                 *)
(***************************************************************************)
\* requests the coordinator serves at the same time
NumRagRequests == 2

\* calls of the coordinator in one run
MaxCalls == 2

RagRequests == 1..NumRagRequests

\* k of a request
MaxRagK == 1

\* longest generation feed of a streaming request
MaxRagFeedLen == 1

\* workspace slugs (no ':' in them)
Workspaces == {"greenfrog", "docs"}

\* questions: two paraphrases of each other, and a whitespace-only one
Questions == {"q1", "q1x", " "}

\* queries of direct cache calls: the empty one, and two whose embeddings
\* are at similarity 0.95 exactly; the empty one is at 0.8 of "q1"
CacheQueries == {"", "q1", "q1y"}

CacheableQuestions == (Questions \ {" "}) \cup CacheQueries

\* None
None ==
    [kind |-> "none", response |-> <<>>, sources |-> <<>>, cached |-> FALSE,
     cache_time_ms |-> FALSE, source_count |-> 0, no_context_found |-> FALSE]

\* _hash_query: sha256 of "workspace:query", one hash per pair
hash_query(query, workspace) == <<workspace, query>>

HashKeys == {hash_query(q, w) : q \in CacheableQuestions, w \in Workspaces}

\* an empty store
EmptyRedis ==
    [exact |-> [h \in HashKeys |-> None],
     embedding |-> [h \in HashKeys |-> <<>>],
     response |-> [h \in HashKeys |-> None]]

\* no call of the cache yet
NoCall ==
    [op |-> "none", query |-> "", workspace |-> "", use_semantic |-> FALSE,
     ok |-> FALSE, stored |-> None, fresh |-> FALSE, value |-> None, count |-> 0]

\* constructor defaults of RAGServiceV2
RagDefaults == [use_cache |-> TRUE, use_rerank |-> TRUE]

\* a request that has not arrived
IdleRequest ==
    [pc |-> "idle", via |-> "", question |-> "", k |-> 0, min_score |-> 0,
     original_use_cache |-> FALSE, original_use_rerank |-> FALSE,
     documents |-> <<>>, text |-> <<>>, frames |-> <<>>, calls |-> {},
     get_failed |-> FALSE, set_failed |-> FALSE, both_empty |-> FALSE,
     lookup |-> None, generated |-> "", error |-> "", outcome |-> "",
     envelope |-> None]

RerankVarsInit ==
    /\ rr_documents = <<>>
    /\ rr_top_k = 5
    /\ rr_min_score = 0
    /\ rr_pc = "start"
    /\ rr_result = [status |-> "pending", docs |-> <<>>]

\* RetrievalService.__init__, lines 63-69
NewRetrievalService ==
    [documents |-> <<>>, tokenized_corpus |-> <<>>,
     bm25_index |-> [built |-> FALSE, corpus |-> <<>>],
     documents_loaded |-> FALSE]

NotSearched ==
    [searched |-> FALSE, query |-> <<>>, documents |-> <<>>,
     tokenized_corpus |-> <<>>, corpus |-> <<>>, results |-> <<>>]

\* no reload was the last step
NotReloaded == "none"

IndexVarsInit ==
    /\ chroma = <<>>
    /\ retrieval = NewRetrievalService
    /\ bm25_seen = NotSearched
    /\ reload_seen = NotReloaded

\* concurrent calls of CacheService.set
NumSetCalls == 2

SetCalls == 1..NumSetCalls

\* a call of set that has not started
IdleSetCall == [pc |-> "idle", query |-> "", workspace |-> "", ok |-> FALSE]

RagVarsInit ==
    /\ rag = RagDefaults
    /\ redis = EmptyRedis
    /\ req = [r \in RagRequests |-> IdleRequest]
    /\ calls_started = 0
    /\ cache_call = NoCall
    /\ cache_ops = 0
    /\ cache_cleared = {}
    /\ set_calls = [i \in SetCalls |-> IdleSetCall]

(***************************************************************************)
(* StreamService.stream_response (stream_service.py)                       *)
(* Strings are sequences of characters.                                    *)
(***************************************************************************)
\* chunks the generation feed can yield (the empty chunk included)
Tokens == {<<>>, <<"a">>, <<"b", "c">>}

\* longest generation feed
MaxFeedLen == 3

Feeds == UNION {[1..n -> Tokens] : n \in 0..MaxFeedLen}

\* prompts: empty, whitespace only, and a real one
Prompts == {<<>>, <<" ">>, <<"p">>}

\* how generate_stream ends: normally, or raising
FeedEnds == {"ok", "ValueError", "TimeoutError", "httpx.TimeoutException",
             "Exception"}

\* str.strip() on the model's strings
RECURSIVE Strip(_)
Strip(str) ==
    IF str = <<>> THEN <<>>
    ELSE IF Head(str) = " " THEN Strip(Tail(str))
    ELSE IF str[Len(str)] = " " THEN Strip(SubSeq(str, 1, Len(str) - 1))
    ELSE str

\* StreamMetrics.add_chunk
add_chunk(m, content) ==
    [chunk_count |-> m.chunk_count + 1,
     token_count |-> m.token_count + 1,
     total_characters |-> m.total_characters + Len(content)]

\* the {"token", "done": False, "metrics"} event
TokenFrame(chunk, m) ==
    [kind |-> "token", done |-> FALSE, token |-> chunk,
     token_count |-> m.token_count, total_characters |-> m.total_characters]

\* the {"done": True, "stats"} event
CompletionFrame(m, full) ==
    [kind |-> "stats", done |-> TRUE, token |-> <<>>,
     token_count |-> m.token_count, total_characters |-> Len(full)]

\* an {"error", "done": True} event
ErrorFrame(message) ==
    [kind |-> "error", done |-> TRUE, token |-> message,
     token_count |-> 0, total_characters |-> 0]

\* mutant: only the typed handlers yield an error event
StreamErrorFramesTypedOnly(exc) ==
    IF exc = "ValueError" THEN <<ErrorFrame("Validation error")>>
    ELSE IF exc = "TimeoutError" THEN <<ErrorFrame("Request timeout")>>
    ELSE <<>>

\* the three except clauses of stream_response
StreamErrorFrames(exc) ==
    IF exc = "ValueError" THEN <<ErrorFrame("Validation error")>>
    ELSE IF exc = "TimeoutError" THEN <<ErrorFrame("Request timeout")>>
    ELSE <<ErrorFrame("Streaming error")>>

StreamInit ==
    /\ QueueVarsInit
    /\ HybridVarsInit
    /\ RagVarsInit
    /\ RerankVarsInit
    /\ IndexVarsInit
    /\ EnvVarsInit
    /\ stream_prompt \in Prompts
    /\ stream_feed \in Feeds
    /\ stream_feed_end \in FeedEnds
    /\ stream_pos = 0
    /\ stream_pc = "start"
    /\ stream_frames = <<>>
    /\ stream_metrics = [chunk_count |-> 0, token_count |-> 0, total_characters |-> 0]
    /\ stream_full = <<>>

\* lines 129-138: the empty-prompt guard
stream_response_start ==
    /\ stream_pc = "start"
    /\ IF stream_prompt = <<>> \/ Strip(stream_prompt) = <<>>
       THEN /\ stream_frames' = Append(stream_frames, ErrorFrame("Prompt cannot be empty"))
            /\ stream_pc' = "done"
       ELSE /\ stream_pc' = "streaming"
            /\ UNCHANGED stream_frames
    /\ UNCHANGED <<stream_prompt, stream_feed, stream_feed_end, stream_pos,
                   stream_metrics, stream_full>>
    /\ UNCHANGED <<qvars, hvars, rvars>>

\* mutant: an empty chunk is framed like any other
SkipChunkNever(chunk) == FALSE

\* lines 160-161: `if not chunk: continue`
SkipChunk(chunk) == chunk = <<>>

\* lines 152-179: one chunk of the feed
stream_response_chunk ==
    /\ stream_pc = "streaming"
    /\ stream_pos < Len(stream_feed)
    /\ LET chunk == stream_feed[stream_pos + 1]
       IN  /\ stream_pos' = stream_pos + 1
           /\ IF SkipChunk(chunk)
              THEN UNCHANGED <<stream_metrics, stream_full, stream_frames>>
              ELSE /\ stream_metrics' = add_chunk(stream_metrics, chunk)
                   /\ stream_full' = stream_full \o chunk
                   /\ stream_frames' = Append(stream_frames,
                          TokenFrame(chunk, add_chunk(stream_metrics, chunk)))
    /\ UNCHANGED <<stream_prompt, stream_feed, stream_feed_end, stream_pc>>
    /\ UNCHANGED <<qvars, hvars, rvars>>

\* lines 181-198: the feed ended, completion event
stream_response_complete ==
    /\ stream_pc = "streaming"
    /\ stream_pos = Len(stream_feed)
    /\ stream_feed_end = "ok"
    /\ stream_frames' = Append(stream_frames,
                               CompletionFrame(stream_metrics, stream_full))
    /\ stream_pc' = "done"
    /\ UNCHANGED <<stream_prompt, stream_feed, stream_feed_end, stream_pos,
                   stream_metrics, stream_full>>
    /\ UNCHANGED <<qvars, hvars, rvars>>

\* lines 200-253: the feed raised, error event
stream_response_error ==
    /\ stream_pc = "streaming"
    /\ stream_pos = Len(stream_feed)
    /\ stream_feed_end # "ok"
    /\ stream_frames' = stream_frames \o StreamErrorFrames(stream_feed_end)
    /\ stream_pc' = "done"
    /\ UNCHANGED <<stream_prompt, stream_feed, stream_feed_end, stream_pos,
                   stream_metrics, stream_full>>
    /\ UNCHANGED <<qvars, hvars, rvars>>

StreamNext ==
    \/ stream_response_start
    \/ stream_response_chunk
    \/ stream_response_complete
    \/ stream_response_error

StreamSpec == StreamInit /\ [][StreamNext]_vars

\* frames with done = true
TerminalFrames(frames) == {i \in 1..Len(frames) : frames[i].done}

NonTerminal(frame) == ~frame.done

\* a token that is not the empty string
NonEmpty(chunk) == chunk # <<>>

\* the tokens carried by the non-terminal frames, in order
FrameTokens(frames) ==
    LET nt == SelectSeq(frames, NonTerminal)
    IN  [i \in 1..Len(nt) |-> nt[i].token]

\* C22: the non-terminal frames produced by stream_response carry, in the
\* same order, exactly the non-empty tokens the generation feed has yielded
\* so far; at the end, those it yielded before it ended or failed
C22_FramesCarryTokens ==
    /\ FrameTokens(stream_frames)
           = SelectSeq(SubSeq(stream_feed, 1, stream_pos), NonEmpty)
    /\ (stream_pc = "done" /\ Strip(stream_prompt) # <<>>) =>
           stream_pos = Len(stream_feed)

\* a feed of two tokens around an empty one that then failed
C22_Witness ==
    /\ stream_pc = "done"
    /\ stream_feed_end = "Exception"
    /\ Len(stream_feed) = 3
    /\ stream_feed[2] = <<>>
    /\ Len(FrameTokens(stream_frames)) = 2
    /\ FrameTokens(stream_frames)[1] # FrameTokens(stream_frames)[2]

(***************************************************************************)
(* RetrievalService.hybrid_search (retrieval_service.py)                   *)
(* Scores are exact rationals in units of 1 / ScoreOne.                    *)
(***************************************************************************)
Docs == {"d1", "d2", "d3"}

\* longest ranked list an index returns
MaxListLen == 3

\* largest k passed to hybrid_search
MaxK == 3

\* default rrf_k of hybrid_search
RRF_K == 60

\* cap on the number of candidates asked from each sub-search
RETRIEVE_CAP == 50

\* default weights (0.5, 0.5), in halves
DefaultWeights == <<1, 1>>

RECURSIVE RankProduct(_, _)
RankProduct(c, n) == IF n = 0 THEN 1 ELSE (c + n) * RankProduct(c, n - 1)

\* values of rrf_k a caller passes: the default, and 0
RRFConstants == {RRF_K, 0}

\* values of weights a caller passes, in halves: (0.5, 0.5), (1.0, 0.5),
\* (0.0, 1.0)
Weights == {DefaultWeights, <<2, 1>>, <<0, 2>>}

\* common denominator of 1 / (rrf_k + rank) over all constants and ranks of
\* the model
RRFScale == RankProduct(RRF_K, MaxListLen) * RankProduct(0, MaxListLen)

\* the score 1.0
ScoreOne == 2 * RRFScale

\* duplicate-free rankings of document ids
RankedIds ==
    {r \in UNION {[1..n -> Docs] : n \in 0..MaxListLen} :
        \A i, j \in 1..Len(r) : i # j => r[i] # r[j]}

\* 1-indexed rank of id in a result list, 0 when absent
RankOf(id, results) ==
    IF \E i \in 1..Len(results) : results[i].id = id
    THEN CHOOSE i \in 1..Len(results) : results[i].id = id
    ELSE 0

\* list[:n]
Take(list, n) == SubSeq(list, 1, Min(Len(list), n))

\* _semantic_search: the index's ranking with similarity 1 / (1 + distance),
\* the i-th nearest document being at distance i; raises on an index error
semantic_search_results(index, retrieve_k) ==
    IF index.error THEN Raised
    ELSE Returned([i \in 1..Min(Len(index.ids), retrieve_k) |->
            [id |-> index.ids[i], score |-> ScoreOne \div (1 + i),
             method |-> "semantic"]])

\* _bm25_search: top documents with a positive BM25 score; every error is
\* swallowed and yields []
bm25_search_results(index, retrieve_k) ==
    IF index.error THEN Returned(<<>>)
    ELSE Returned([i \in 1..Min(Len(index.ids), retrieve_k) |->
            [id |-> index.ids[i],
             score |-> (ScoreOne \div 2) * (MaxListLen + 1 - i),
             method |-> "bm25"]])

\* weight * (1.0 / (k + rank + 1)) for a 0-indexed rank, 0 when absent
RRFTerm(weight, c, rank1) ==
    IF rank1 = 0 THEN 0 ELSE weight * (RRFScale \div (c + rank1))

\* lines 374-376, 385-387: one loop over enumerate(results), adding
\* weight * (1.0 / (k + rank + 1)) to rrf_scores[doc_id] at every position
RECURSIVE AccumulateRRF(_, _, _, _)
AccumulateRRF(rrf_scores, results, weight, c) ==
    IF results = <<>> THEN rrf_scores
    ELSE LET n == Len(results)
             before == AccumulateRRF(rrf_scores, SubSeq(results, 1, n - 1),
                                     weight, c)
         IN  [before EXCEPT ![results[n].id] = @ + RRFTerm(weight, c, n)]

\* mutant: the second loop assigns its term instead of adding it
RRFScoreOfAssigned(id, semantic_results, bm25_results, c, weights) ==
    IF RankOf(id, bm25_results) # 0
    THEN RRFTerm(weights[2], c, RankOf(id, bm25_results))
    ELSE RRFTerm(weights[1], c, RankOf(id, semantic_results))

\* rrf_scores[doc_id] after both loops
RRFScoreOf(id, semantic_results, bm25_results, c, weights) ==
    AccumulateRRF(AccumulateRRF([d \in Docs |-> 0], semantic_results,
                                weights[1], c),
                  bm25_results, weights[2], c)[id]

\* doc_map in insertion order: semantic results, then keyword-only ones
RECURSIVE KeywordOnly(_, _)
KeywordOnly(bm25_results, semantic_results) ==
    IF bm25_results = <<>> THEN <<>>
    ELSE IF RankOf(Head(bm25_results).id, semantic_results) = 0
         THEN <<Head(bm25_results)>> \o KeywordOnly(Tail(bm25_results), semantic_results)
         ELSE KeywordOnly(Tail(bm25_results), semantic_results)

DocMap(semantic_results, bm25_results) ==
    semantic_results \o KeywordOnly(bm25_results, semantic_results)

\* insert doc into a list sorted by rrf_score descending, after its equals
RECURSIVE InsertByRRF(_, _)
InsertByRRF(doc, sorted) ==
    IF sorted = <<>> THEN <<doc>>
    ELSE IF Head(sorted).rrf_score >= doc.rrf_score
         THEN <<Head(sorted)>> \o InsertByRRF(doc, Tail(sorted))
         ELSE <<doc>> \o sorted

\* list.sort(key=rrf_score, reverse=True): stable
RECURSIVE SortByRRF(_)
SortByRRF(list) ==
    IF list = <<>> THEN <<>>
    ELSE InsertByRRF(list[Len(list)], SortByRRF(SubSeq(list, 1, Len(list) - 1)))

\* mutant: the combined list is returned in insertion order, unsorted
reciprocal_rank_fusion_unsorted(semantic_results, bm25_results, c, weights) ==
    LET dm == DocMap(semantic_results, bm25_results)
    IN  [i \in 1..Len(dm) |->
            [id |-> dm[i].id, score |-> dm[i].score, method |-> "hybrid",
             semantic_rank |-> RankOf(dm[i].id, semantic_results),
             bm25_rank |-> RankOf(dm[i].id, bm25_results),
             rrf_score |-> RRFScoreOf(dm[i].id, semantic_results,
                                      bm25_results, c, weights)]]

\* _reciprocal_rank_fusion
reciprocal_rank_fusion(semantic_results, bm25_results, c, weights) ==
    LET dm == DocMap(semantic_results, bm25_results)
        combined == [i \in 1..Len(dm) |->
            [id |-> dm[i].id, score |-> dm[i].score, method |-> "hybrid",
             semantic_rank |-> RankOf(dm[i].id, semantic_results),
             bm25_rank |-> RankOf(dm[i].id, bm25_results),
             rrf_score |-> RRFScoreOf(dm[i].id, semantic_results,
                                      bm25_results, c, weights)]]
    IN  SortByRRF(combined)

\* [r for r in list if r.rrf_score >= min_score]
RECURSIVE FilterByRRF(_, _)
FilterByRRF(list, min_score) ==
    IF list = <<>> THEN <<>>
    ELSE IF Head(list).rrf_score >= min_score
         THEN <<Head(list)>> \o FilterByRRF(Tail(list), min_score)
         ELSE FilterByRRF(Tail(list), min_score)

\* mutant: retrieval fails as soon as one of the two lists is empty
EitherSearchEmpty(semantic_results, bm25_results) ==
    semantic_results = <<>> \/ bm25_results = <<>>

\* line 462: `not semantic_results and not bm25_results`
BothSearchesEmpty(semantic_results, bm25_results) ==
    semantic_results = <<>> /\ bm25_results = <<>>

\* lines 452-459: an exception returned by gather counts as no results
GatherResults(outcome) ==
    IF outcome.state = "exception" THEN <<>> ELSE outcome.docs

\* mutant: the threshold on rrf_score is not applied
hybrid_join_unfiltered(semantic_outcome, bm25_outcome, k, c, weights, min_score) ==
    LET semantic_results == GatherResults(semantic_outcome)
        bm25_results == GatherResults(bm25_outcome)
        combined == reciprocal_rank_fusion(semantic_results, bm25_results,
                                           c, weights)
    IN  IF BothSearchesEmpty(semantic_results, bm25_results)
        THEN [status |-> "raise", docs |-> <<>>]
        ELSE [status |-> "ok", docs |-> Take(combined, k)]

\* lines 452-490: join of the two tasks, fusion, threshold, truncation
hybrid_join(semantic_outcome, bm25_outcome, k, c, weights, min_score) ==
    LET semantic_results == GatherResults(semantic_outcome)
        bm25_results == GatherResults(bm25_outcome)
        combined == reciprocal_rank_fusion(semantic_results, bm25_results,
                                           c, weights)
        filtered == IF min_score > 0 THEN FilterByRRF(combined, min_score)
                    ELSE combined
    IN  IF BothSearchesEmpty(semantic_results, bm25_results)
        THEN [status |-> "raise", docs |-> <<>>]
        ELSE [status |-> "ok", docs |-> Take(filtered, k)]

\* retrieve_k = min(k * 2, 50)
RetrieveK(k) == Min(k * 2, RETRIEVE_CAP)

\* hybrid_search as one call
hybrid_search(embed_ok, index_sem, index_bm25, k, c, weights, min_score) ==
    IF ~embed_ok THEN [status |-> "raise", docs |-> <<>>]
    ELSE hybrid_join(semantic_search_results(index_sem, RetrieveK(k)),
                     bm25_search_results(index_bm25, RetrieveK(k)),
                     k, c, weights, min_score)

\* min_score values: none, above any single-list score, above every score
MinScores == {0, RRFTerm(1, RRF_K, 1) + 1, ScoreOne \div 2}

\* what an index can answer: an error, or a ranking
IndexAnswers ==
    {[error |-> TRUE, ids |-> <<>>]} \cup
    {[error |-> FALSE, ids |-> r] : r \in RankedIds}

HybridInit ==
    /\ QueueVarsInit
    /\ StreamVarsInit
    /\ RagVarsInit
    /\ RerankVarsInit
    /\ IndexVarsInit
    /\ EnvVarsInit
    /\ hs_k \in 1..MaxK
    /\ hs_min_score \in MinScores
    /\ hs_rrf_k \in RRFConstants
    /\ hs_weights \in Weights
    /\ hs_fused = <<>>
    /\ hs_embed_ok \in BOOLEAN
    /\ hs_index_sem \in IndexAnswers
    /\ hs_index_bm25 \in IndexAnswers
    /\ hs_semantic = Pending
    /\ hs_bm25 = Pending
    /\ hs_pc = "embed"
    /\ hs_result = [status |-> "none", docs |-> <<>>]

\* lines 436-437 and 492-494: the query embedding
hybrid_search_embed ==
    /\ hs_pc = "embed"
    /\ IF hs_embed_ok
       THEN hs_pc' = "gather" /\ UNCHANGED hs_result
       ELSE hs_pc' = "done" /\ hs_result' = [status |-> "raise", docs |-> <<>>]
    /\ UNCHANGED <<hs_k, hs_min_score, hs_embed_ok, hs_index_sem,
                   hs_index_bm25, hs_semantic, hs_bm25>>
    /\ UNCHANGED <<hs_rrf_k, hs_weights, hs_fused>>
    /\ UNCHANGED <<qvars, svars, rvars>>

\* lines 443, 218-273: the semantic task finishes
semantic_task_done ==
    /\ hs_pc = "gather"
    /\ hs_semantic = Pending
    /\ hs_semantic' = semantic_search_results(hs_index_sem, RetrieveK(hs_k))
    /\ UNCHANGED <<hs_k, hs_min_score, hs_embed_ok, hs_index_sem,
                   hs_index_bm25, hs_bm25, hs_pc, hs_result>>
    /\ UNCHANGED <<hs_rrf_k, hs_weights, hs_fused>>
    /\ UNCHANGED <<qvars, svars, rvars>>

\* lines 444, 275-335: the keyword task finishes
bm25_task_done ==
    /\ hs_pc = "gather"
    /\ hs_bm25 = Pending
    /\ hs_bm25' = bm25_search_results(hs_index_bm25, RetrieveK(hs_k))
    /\ UNCHANGED <<hs_k, hs_min_score, hs_embed_ok, hs_index_sem,
                   hs_index_bm25, hs_semantic, hs_pc, hs_result>>
    /\ UNCHANGED <<hs_rrf_k, hs_weights, hs_fused>>
    /\ UNCHANGED <<qvars, svars, rvars>>

\* lines 446-494: gather returned, fuse and return
hybrid_search_join ==
    /\ hs_pc = "gather"
    /\ hs_semantic # Pending
    /\ hs_bm25 # Pending
    /\ hs_result' = hybrid_join(hs_semantic, hs_bm25, hs_k, hs_rrf_k,
                                hs_weights, hs_min_score)
    /\ hs_fused' = IF BothSearchesEmpty(GatherResults(hs_semantic),
                                        GatherResults(hs_bm25))
                   THEN <<>>
                   ELSE reciprocal_rank_fusion(GatherResults(hs_semantic),
                                               GatherResults(hs_bm25),
                                               hs_rrf_k, hs_weights)
    /\ hs_pc' = "done"
    /\ UNCHANGED <<hs_k, hs_min_score, hs_embed_ok, hs_index_sem,
                   hs_index_bm25, hs_semantic, hs_bm25>>
    /\ UNCHANGED <<hs_rrf_k, hs_weights>>
    /\ UNCHANGED <<qvars, svars, rvars>>

HybridNext ==
    \/ hybrid_search_embed
    \/ semantic_task_done
    \/ bm25_task_done
    \/ hybrid_search_join

HybridSpec == HybridInit /\ [][HybridNext]_vars

\* the ranking that survived when exactly one sub-search failed
SurvivingIds ==
    IF hs_index_sem.error THEN hs_index_bm25.ids ELSE hs_index_sem.ids

\* the weight of the list that survived
SurvivingWeight ==
    IF hs_index_sem.error THEN hs_weights[2] ELSE hs_weights[1]

ExactlyOneSearchFailed ==
    /\ hs_index_sem.error # hs_index_bm25.error
    /\ SurvivingIds # <<>>

\* C6: when exactly one sub-search fails and the other returns at least
\* one document, hybrid_search does not fail and its result is the fusion
\* of the surviving list alone: the surviving ranking in order, each score
\* being that list's single term.
C6_SingleFailureDegrades ==
    (hs_pc = "done" /\ hs_embed_ok /\ ExactlyOneSearchFailed) =>
        /\ hs_result.status = "ok"
        /\ \A i \in 1..Len(hs_result.docs) :
              /\ hs_result.docs[i].id \in {SurvivingIds[j] : j \in 1..Len(SurvivingIds)}
              /\ hs_result.docs[i].rrf_score =
                    RRFTerm(SurvivingWeight, hs_rrf_k,
                            RankOf(hs_result.docs[i].id,
                              [j \in 1..Len(SurvivingIds) |-> [id |-> SurvivingIds[j]]]))
        /\ hs_min_score = 0 =>
              /\ Len(hs_result.docs) = Min(hs_k, Len(SurvivingIds))
              /\ \A i \in 1..Len(hs_result.docs) :
                    hs_result.docs[i].id = SurvivingIds[i]

C6_Witness ==
    /\ hs_pc = "done"
    /\ hs_embed_ok
    /\ hs_index_sem.error
    /\ Len(hs_index_bm25.ids) >= 2
    /\ hs_result.status = "ok"
    /\ Len(hs_result.docs) >= 2

\* 1-indexed rank of a document in the semantic / keyword list, 0 if absent
SemanticRank(id) == RankOf(id, GatherResults(hs_semantic))

KeywordRank(id) == RankOf(id, GatherResults(hs_bm25))

\* C13: the rrf_score of a fused document at rank a in the semantic list
\* and rank b in the keyword list is wA/(c+a) + wB/(c+b); a document of
\* only one list gets exactly that list's term
C13_RRFScore ==
    hs_pc = "done" =>
        \A i \in 1..Len(hs_fused) :
            LET a == SemanticRank(hs_fused[i].id)
                b == KeywordRank(hs_fused[i].id)
            IN  /\ a > 0 \/ b > 0
                /\ hs_fused[i].rrf_score =
                      (IF a = 0 THEN 0
                       ELSE (hs_weights[1] * RRFScale) \div (hs_rrf_k + a))
                      + (IF b = 0 THEN 0
                         ELSE (hs_weights[2] * RRFScale) \div (hs_rrf_k + b))

C13_Witness ==
    /\ hs_pc = "done"
    /\ hs_weights = <<2, 1>>
    /\ hs_rrf_k = 0
    /\ \E i, j, l \in 1..Len(hs_fused) :
          /\ SemanticRank(hs_fused[i].id) = 2 /\ KeywordRank(hs_fused[i].id) = 1
          /\ SemanticRank(hs_fused[j].id) = 0 /\ KeywordRank(hs_fused[j].id) = 2
          /\ SemanticRank(hs_fused[l].id) = 1 /\ KeywordRank(hs_fused[l].id) = 0

\* the document was put into doc_map before the other one
InsertedBefore(x, y) ==
    \/ SemanticRank(x) > 0 /\ SemanticRank(y) > 0 /\ SemanticRank(x) < SemanticRank(y)
    \/ SemanticRank(x) > 0 /\ SemanticRank(y) = 0
    \/ SemanticRank(x) = 0 /\ SemanticRank(y) = 0 /\ KeywordRank(x) < KeywordRank(y)

\* C14: the fused list is in non-increasing order of rrf_score, documents
\* of equal score in the order of their first insertion
C14_FusedOrder ==
    hs_pc = "done" =>
        \A i, j \in 1..Len(hs_fused) :
            i < j => /\ hs_fused[i].rrf_score >= hs_fused[j].rrf_score
                     /\ hs_fused[i].rrf_score = hs_fused[j].rrf_score
                           => InsertedBefore(hs_fused[i].id, hs_fused[j].id)

C14_Witness ==
    /\ hs_pc = "done"
    /\ Len(hs_fused) = 3
    /\ hs_fused[1].rrf_score = hs_fused[2].rrf_score
    /\ hs_fused[2].rrf_score > hs_fused[3].rrf_score
    /\ InsertedBefore(hs_fused[3].id, hs_fused[2].id)

\* the fused document passes the threshold
AtLeastMinScore(doc) == doc.rrf_score >= hs_min_score

\* C15: hybrid_search returns the first k, in fused order, of the fused
\* documents whose rrf_score is at least min_score
C15_FilterThenTruncate ==
    (hs_pc = "done" /\ hs_result.status = "ok") =>
        LET qualifying == SelectSeq(hs_fused, AtLeastMinScore)
        IN  /\ hs_result.docs = SubSeq(qualifying, 1, Min(hs_k, Len(qualifying)))
            /\ \A i \in 1..Len(hs_result.docs) :
                  hs_result.docs[i].rrf_score >= hs_min_score

C15_Witness ==
    /\ hs_pc = "done"
    /\ hs_result.status = "ok"
    /\ hs_min_score > 0
    /\ Len(hs_result.docs) = hs_k
    /\ Len(SelectSeq(hs_fused, AtLeastMinScore)) > hs_k
    /\ Len(SelectSeq(hs_fused, AtLeastMinScore)) < Len(hs_fused)
    /\ \E i \in 1..Len(hs_result.docs) : hs_result.docs[i].rrf_score = hs_min_score

(***************************************************************************)
(* CacheService (cache_service.py)                                         *)
(* Embeddings are integer vectors; cosine similarities are compared        *)
(* exactly, by cross-multiplying the squares.                              *)
(***************************************************************************)
\* similarity_threshold = 0.95, in hundredths
SIMILARITY_THRESHOLD == 95

\* _generate_embedding: the vector the embedding model gives a query
generate_embedding(query) ==
    IF query = "q1" THEN <<1, 0, 0, 0, 0>>
    ELSE IF query = "q1x" THEN <<24, 7, 0, 0, 0>>
    ELSE IF query = "q1y" THEN <<19, 5, 3, 2, 1>>
    ELSE IF query = "" THEN <<4, 3, 0, 0, 0>>
    ELSE <<0, 0, 0, 0, 1>>

\* np.dot
Dot(a, b) == a[1] * b[1] + a[2] * b[2] + a[3] * b[3] + a[4] * b[4] + a[5] * b[5]

\* _cosine_similarity(a, b) > 0
SimPositive(a, b) == Dot(a, b) > 0

\* _cosine_similarity(a, b1) > _cosine_similarity(a, b2), both positive
SimGreater(a, b1, b2) ==
    Dot(a, b1) * Dot(a, b1) * Dot(b2, b2) > Dot(a, b2) * Dot(a, b2) * Dot(b1, b1)

\* _cosine_similarity(a, b) >= threshold / 100, similarity positive
SimAtLeast(a, b, threshold) ==
    Dot(a, b) * Dot(a, b) * 10000 >= threshold * threshold * Dot(a, a) * Dot(b, b)

\* keys matched by scan_iter("cache:embedding:{workspace}:*")
EmbeddingKeys(store, workspace) ==
    {h \in HashKeys : h[1] = workspace /\ store.embedding[h] # <<>>}

\* the keys the scan loop can end with as best_key: a key of positive and
\* maximal similarity (the first one scanned wins a tie)
BestKeys(store, query, workspace) ==
    LET e == generate_embedding(query)
        keys == {h \in EmbeddingKeys(store, workspace) :
                     SimPositive(e, store.embedding[h])}
    IN  {h \in keys : \A g \in keys :
            ~SimGreater(e, store.embedding[g], store.embedding[h])}

\* json.dumps of a response dict: the text kept in the store
json_dumps(response) == [response EXCEPT !.kind = "json"]

\* json.loads of a stored text
json_loads(text) == [text EXCEPT !.kind = "envelope"]

\* mutant: an error of the store is raised to the caller of get
CacheGetErrorRaises == [raised |-> TRUE, value |-> None]

\* lines 216-218: get logs the error and returns None
CacheGetError == [raised |-> FALSE, value |-> None]

\* mutant: a similarity equal to the threshold is a miss
cache_service_get_above(store, query, workspace, use_semantic, store_ok) ==
    LET exact_match == store.exact[hash_query(query, workspace)]
        e == generate_embedding(query)
        best == BestKeys(store, query, workspace)
    IN  IF ~store_ok THEN {CacheGetError}
        ELSE IF exact_match.kind # "none"
        THEN {[raised |-> FALSE, value |-> json_loads(exact_match)]}
        ELSE IF ~use_semantic \/ best = {}
        THEN {[raised |-> FALSE, value |-> None]}
        ELSE {[raised |-> FALSE,
               value |-> IF SimAtLeast(e, store.embedding[h], SIMILARITY_THRESHOLD + 1)
                              /\ store.response[h].kind # "none"
                         THEN json_loads(store.response[h]) ELSE None] : h \in best}

\* CacheService.get: the values it can return
cache_service_get(store, query, workspace, use_semantic, store_ok) ==
    LET exact_match == store.exact[hash_query(query, workspace)]
        e == generate_embedding(query)
        best == BestKeys(store, query, workspace)
    IN  IF ~store_ok THEN {CacheGetError}
        ELSE IF exact_match.kind # "none"
        THEN {[raised |-> FALSE, value |-> json_loads(exact_match)]}
        ELSE IF ~use_semantic \/ best = {}
        THEN {[raised |-> FALSE, value |-> None]}
        ELSE {[raised |-> FALSE,
               value |-> IF SimAtLeast(e, store.embedding[h], SIMILARITY_THRESHOLD)
                              /\ store.response[h].kind # "none"
                         THEN json_loads(store.response[h]) ELSE None] : h \in best}

\* mutant: an error of the store is raised to the caller of set
CacheSetErrorRaises == TRUE

\* lines 274-276: set logs the error and returns False
CacheSetError == FALSE

\* mutant: an entry that exists is kept (SET NX)
cache_service_set_nx(store, query, response, workspace, writes) ==
    LET h == hash_query(query, workspace)
        s1 == IF writes >= 1 /\ store.exact[h].kind = "none"
              THEN [store EXCEPT !.exact[h] = json_dumps(response)] ELSE store
        s2 == IF writes >= 2
              THEN [s1 EXCEPT !.embedding[h] = generate_embedding(query)] ELSE s1
        s3 == IF writes >= 3 /\ store.response[h].kind = "none"
              THEN [s2 EXCEPT !.response[h] = json_dumps(response)] ELSE s2
    IN  [raised |-> IF writes < 3 THEN CacheSetError ELSE FALSE,
         ok |-> writes = 3, store |-> s3]

\* CacheService.set, `writes` of its three setex calls succeeding
cache_service_set(store, query, response, workspace, writes) ==
    LET h == hash_query(query, workspace)
        s1 == IF writes >= 1
              THEN [store EXCEPT !.exact[h] = json_dumps(response)] ELSE store
        s2 == IF writes >= 2
              THEN [s1 EXCEPT !.embedding[h] = generate_embedding(query)] ELSE s1
        s3 == IF writes >= 3
              THEN [s2 EXCEPT !.response[h] = json_dumps(response)] ELSE s2
    IN  [raised |-> IF writes < 3 THEN CacheSetError ELSE FALSE,
         ok |-> writes = 3, store |-> s3]

\* number of keys among `keys` that exist, as r.delete counts them
Existing(store, keys) ==
    Cardinality({h \in keys : store.exact[h].kind # "none"})
        + Cardinality({h \in keys : store.embedding[h] # <<>>})
        + Cardinality({h \in keys : store.response[h].kind # "none"})

\* lines 296-306: the three keys of one query are deleted by one command
invalidate_query(store, query, workspace) ==
    LET h == hash_query(query, workspace)
    IN  [count |-> Existing(store, {h}),
         store |-> [store EXCEPT !.exact[h] = None, !.embedding[h] = <<>>,
                                 !.response[h] = None]]

\* keys matched by scan_iter("cache:{kind}:{workspace}:*")
WorkspaceKeys(workspace) == {h \in HashKeys : h[1] = workspace}

\* mutant: only the exact keys are scanned and deleted
invalidate_workspace_exact_only(store, workspace, rounds) ==
    LET s1 == IF rounds >= 1
              THEN [store EXCEPT !.exact = [h \in HashKeys |-> None]] ELSE store
    IN  [count |-> IF rounds < 3 THEN 0
                   ELSE Cardinality({h \in HashKeys : store.exact[h].kind # "none"}),
         store |-> s1]

\* mutant: the exact keys are scanned with the workspace in the pattern
invalidate_workspace_scoped(store, workspace, rounds) ==
    LET w == WorkspaceKeys(workspace)
        s1 == IF rounds >= 1
              THEN [store EXCEPT !.exact =
                        [h \in HashKeys |-> IF h \in w THEN None ELSE @[h]]]
              ELSE store
        s2 == IF rounds >= 2
              THEN [s1 EXCEPT !.embedding =
                        [h \in HashKeys |-> IF h \in w THEN <<>> ELSE @[h]]]
              ELSE s1
        s3 == IF rounds >= 3
              THEN [s2 EXCEPT !.response =
                        [h \in HashKeys |-> IF h \in w THEN None ELSE @[h]]]
              ELSE s2
    IN  [count |-> IF rounds < 3 THEN 0 ELSE Existing(store, w),
         store |-> s3]

\* lines 307-323: "cache:exact:*" (every workspace), then the embedding keys
\* and the response keys of the workspace; `rounds` of the three
\* scan-and-delete rounds are done before the store fails
invalidate_workspace(store, workspace, rounds) ==
    LET w == WorkspaceKeys(workspace)
        s1 == IF rounds >= 1
              THEN [store EXCEPT !.exact = [h \in HashKeys |-> None]] ELSE store
        s2 == IF rounds >= 2
              THEN [s1 EXCEPT !.embedding =
                        [h \in HashKeys |-> IF h \in w THEN <<>> ELSE @[h]]]
              ELSE s1
        s3 == IF rounds >= 3
              THEN [s2 EXCEPT !.response =
                        [h \in HashKeys |-> IF h \in w THEN None ELSE @[h]]]
              ELSE s2
    IN  [count |-> IF rounds < 3 THEN 0
                   ELSE Cardinality({h \in HashKeys : store.exact[h].kind # "none"})
                        + Cardinality({h \in w : store.embedding[h] # <<>>})
                        + Cardinality({h \in w : store.response[h].kind # "none"}),
         store |-> s3]

\* the query argument when the caller passes none
NoQuery == "None"

\* line 296: `if query:`
QueryGiven(query) == query # NoQuery /\ query # ""

\* CacheService.invalidate; rounds < 3 stands for a store that fails
\* (lines 325-327: the error is logged and 0 is returned)
cache_service_invalidate(store, query, workspace, rounds) ==
    IF QueryGiven(query)
    THEN IF rounds < 3 THEN [count |-> 0, store |-> store]
         ELSE invalidate_query(store, query, workspace)
    ELSE invalidate_workspace(store, workspace, rounds)

(***************************************************************************)
(* RerankService (rerank_service.py)                                       *)
(***************************************************************************)
\* [doc for doc in documents if doc.score >= min_score]
RECURSIVE FilterByScore(_, _)
FilterByScore(list, min_score) ==
    IF list = <<>> THEN <<>>
    ELSE IF Head(list).score >= min_score
         THEN <<Head(list)>> \o FilterByScore(Tail(list), min_score)
         ELSE FilterByScore(Tail(list), min_score)

RECURSIVE InsertByScore(_, _)
InsertByScore(doc, sorted) ==
    IF sorted = <<>> THEN <<doc>>
    ELSE IF Head(sorted).score >= doc.score
         THEN <<Head(sorted)>> \o InsertByScore(doc, Tail(sorted))
         ELSE <<doc>> \o sorted

\* sorted(list, key=score, reverse=True): stable
RECURSIVE SortByScore(_)
SortByScore(list) ==
    IF list = <<>> THEN <<>>
    ELSE InsertByScore(list[Len(list)], SortByScore(SubSeq(list, 1, Len(list) - 1)))

\* mutant: the filtered documents are returned in input order
rerank_score_based_unsorted(documents, top_k, min_score) ==
    Take(FilterByScore(documents, min_score), top_k)

\* _rerank_score_based
rerank_score_based(documents, top_k, min_score) ==
    Take(SortByScore(FilterByScore(documents, min_score)), top_k)

\* _validate_documents passes: every document is a dict with id, text and
\* a score that float() converts
ValidDocuments(documents) ==
    \A i \in 1..Len(documents) : documents[i].shape # "malformed"

\* every document is a dict with id, text and a score that is a number
WellFormedDocuments(documents) ==
    \A i \in 1..Len(documents) : documents[i].shape = "number"

\* RerankService.rerank with model "score-based"
rerank(documents, top_k, min_score) ==
    IF documents = <<>> THEN [status |-> "return", docs |-> <<>>]
    ELSE IF ~ValidDocuments(documents)
    THEN [status |-> "ValueError", docs |-> <<>>]
    ELSE IF ~WellFormedDocuments(documents)
    THEN [status |-> "Exception", docs |-> <<>>]
    ELSE [status |-> "return",
          docs |-> rerank_score_based(documents, top_k, min_score)]

(***************************************************************************)
(* RAGServiceV2.query and the handlers of chat_v2.py                       *)
(***************************************************************************)
\* the canned answer of _build_no_context_response
NoContextText == <<"I couldn't find any relevant information">>

\* the i-th token of a generation feed
RagToken(i) == IF i % 2 = 1 THEN <<"a">> ELSE <<"b">>

\* answers the generation call can return
RagTexts == {<<"a">>, <<"a", "b">>}

\* use_cache / use_rerank of a request: None, true, false
Overrides == {"none", "true", "false"}

\* what the two indexes can answer during a pipeline execution
RagSemAnswers ==
    {[error |-> TRUE, ids |-> <<>>], [error |-> FALSE, ids |-> <<>>],
     [error |-> FALSE, ids |-> <<"d1", "d2">>]}

RagBm25Answers ==
    {[error |-> TRUE, ids |-> <<>>], [error |-> FALSE, ids |-> <<>>],
     [error |-> FALSE, ids |-> <<"d2">>]}

\* min_score of a direct call: none, or 0.5
RagMinScores == {0, ScoreOne \div 2}

\* how the generation feed of a streaming request ends
RagFeedEnds == {"ok", "Exception"}

\* mutant: only the empty string is refused
IsBlankEmptyOnly(question) == question = ""

\* `not question or not question.strip()`
IsBlank(question) == question = "" \/ question = " "

\* `if request.use_cache is not None: rag.use_cache = request.use_cache`
ApplyOverrides(flags, uc, ur) ==
    [use_cache |-> IF uc = "none" THEN flags.use_cache ELSE uc = "true",
     use_rerank |-> IF ur = "none" THEN flags.use_rerank ELSE ur = "true"]

\* _build_response
build_response(text, documents) ==
    [kind |-> "envelope", response |-> text, sources |-> documents,
     cached |-> FALSE, cache_time_ms |-> FALSE,
     source_count |-> Len(documents), no_context_found |-> FALSE]

\* _build_no_context_response
build_no_context_response ==
    [kind |-> "envelope", response |-> NoContextText, sources |-> <<>>,
     cached |-> FALSE, cache_time_ms |-> FALSE,
     source_count |-> 0, no_context_found |-> TRUE]

\* lines 211-213: the stamp put on a cached response
StampCached(cached_response) ==
    [cached_response EXCEPT !.cached = TRUE, !.cache_time_ms = TRUE]

\* mutant: a cached response is never recognised
CacheHitNever(cached_response) == FALSE

\* line 202: `if cached_response:`
CacheHit(cached_response) == cached_response.kind # "none"

\* an SSE event as the coordinator and the handler see it
SSEFrame(kind, done, token) == [kind |-> kind, done |-> done, token |-> token]

Ids(documents) == [i \in 1..Len(documents) |-> documents[i].id]

\* the flags saved by a handler before it applied its overrides
SavedFlags(cur) ==
    [use_cache |-> cur.original_use_cache, use_rerank |-> cur.original_use_rerank]

\* a request takes the first free slot
MayStart(r) ==
    /\ calls_started < MaxCalls
    /\ req[r].pc \in {"idle", "done"}
    /\ \A q \in 1..(r - 1) : req[q].pc \notin {"idle", "done"}

\* what is left of a request once it has been answered
Answered(cur, outcome, error, envelope) ==
    [cur EXCEPT !.pc = "done", !.outcome = outcome, !.error = error,
                !.envelope = envelope, !.documents = <<>>, !.text = <<>>,
                !.k = 0, !.min_score = 0,
                !.original_use_cache = FALSE, !.original_use_rerank = FALSE]

\* mutant: event_generator ends without telling the client
event_generator_error_silent(frames) == frames

\* chat_v2.py lines 500-509: the except clause of event_generator yields an
\* error event with done = true
event_generator_error(frames) == Append(frames, SSEFrame("error", TRUE, <<>>))

RagInit ==
    /\ QueueVarsInit
    /\ StreamVarsInit
    /\ HybridVarsInit
    /\ RagVarsInit
    /\ RerankVarsInit
    /\ IndexVarsInit
    /\ EnvVarsInit

\* rag.query is left, by return or by exception:
\*  query_rag (lines 360-363) restores the flags in its finally block;
\*  event_generator (lines 490-510) gets an exception, or a dict it cannot
\*  iterate, and yields an error event;
\*  a direct caller just gets the outcome.
QueryExit(r, cur, outcome, error, envelope) ==
    IF cur.via = "stream_rag_query"
    THEN /\ req' = [req EXCEPT ![r] =
                [cur EXCEPT !.pc = "event_generator_close",
                            !.frames = event_generator_error(@),
                            !.error = IF error = "" THEN "TypeError" ELSE error,
                            !.envelope = envelope]]
         /\ UNCHANGED rag
    ELSE /\ req' = [req EXCEPT ![r] = Answered(cur, outcome, error, envelope)]
         /\ rag' = IF cur.via = "query_rag" THEN SavedFlags(cur) ELSE rag

\* lines 171-199 of rag.query: validation, then the cache flag is read
QueryEnter(r, cur, flags) ==
    IF IsBlank(cur.question)
    THEN /\ req' = [req EXCEPT ![r] =
                IF cur.via = "stream_rag_query"
                THEN [cur EXCEPT !.pc = "event_generator_close",
                                 !.frames = event_generator_error(@),
                                 !.error = "validation"]
                ELSE Answered(cur, "ValueError", "validation", None)]
         /\ rag' = IF cur.via = "query_rag" THEN SavedFlags(cur) ELSE flags
    ELSE /\ req' = [req EXCEPT ![r] =
                IF flags.use_cache
                THEN [cur EXCEPT !.pc = "cache_get", !.calls = @ \cup {"cache_get"}]
                ELSE [cur EXCEPT !.pc = "retrieve", !.calls = @ \cup {"retrieve"}]]
         /\ rag' = flags

\* queue.py lines 59-95: the queue is full, queue_middleware answers a
\* request to /api/v2/chat/query or /api/v2/chat/stream with the 429 JSON
\* response; the handler is not called
queue_reject(r) ==
    /\ MayStart(r)
    /\ \E via \in {"query_rag", "stream_rag_query"} :
         req' = [req EXCEPT ![r] =
                    Answered([IdleRequest EXCEPT !.via = via], "429", "rejected", None)]
    /\ calls_started' = calls_started + 1
    /\ UNCHANGED <<rag, redis>>
    /\ UNCHANGED <<qvars, svars, hvars, cvars, kvars, ivars, evars>>

\* chat_v2.py lines 338-358: query_rag saves the flags, applies the
\* overrides and calls rag.query, which runs up to its first await
query_rag_start(r) ==
    /\ MayStart(r)
    /\ \E question \in Questions, uc \in Overrides, ur \in Overrides,
          k \in 1..MaxRagK :
         QueryEnter(r,
             [IdleRequest EXCEPT !.via = "query_rag", !.question = question,
                                 !.k = k,
                                 !.original_use_cache = rag.use_cache,
                                 !.original_use_rerank = rag.use_rerank],
             ApplyOverrides(rag, uc, ur))
    /\ calls_started' = calls_started + 1
    /\ UNCHANGED redis
    /\ UNCHANGED <<qvars, svars, hvars, cvars, kvars, ivars, evars>>

\* chat_v2.py lines 476-525: stream_rag_query saves the flags, applies the
\* overrides and returns the StreamingResponse
stream_rag_query_start(r) ==
    /\ MayStart(r)
    /\ \E question \in Questions, uc \in Overrides, ur \in Overrides,
          k \in 1..MaxRagK :
         /\ req' = [req EXCEPT ![r] =
                [IdleRequest EXCEPT !.pc = "event_generator",
                                    !.via = "stream_rag_query",
                                    !.question = question, !.k = k,
                                    !.original_use_cache = rag.use_cache,
                                    !.original_use_rerank = rag.use_rerank]]
         /\ rag' = ApplyOverrides(rag, uc, ur)
    /\ calls_started' = calls_started + 1
    /\ UNCHANGED redis
    /\ UNCHANGED <<qvars, svars, hvars, cvars, kvars, ivars, evars>>

\* chat_v2.py lines 486-498: the response body is iterated, rag.query runs
event_generator_start(r) ==
    /\ req[r].pc = "event_generator"
    /\ QueryEnter(r, req[r], rag)
    /\ UNCHANGED redis
    /\ UNCHANGED calls_started
    /\ UNCHANGED <<qvars, svars, hvars, cvars, kvars, ivars, evars>>

\* questions of direct callers: the handlers refuse the empty string
\* (ChatRequestV2.message has min_length=1), rag.query can still get it
DirectQuestions == Questions \cup {""}

\* RAGServiceV2.query called by other code of the process, with min_score
direct_query_start(r) ==
    /\ MayStart(r)
    /\ \E question \in DirectQuestions, min_score \in RagMinScores, k \in 1..MaxRagK :
         QueryEnter(r,
             [IdleRequest EXCEPT !.via = "direct", !.question = question,
                                 !.k = k, !.min_score = min_score],
             rag)
    /\ calls_started' = calls_started + 1
    /\ UNCHANGED redis
    /\ UNCHANGED <<qvars, svars, hvars, cvars, kvars, ivars, evars>>

\* lines 195-220: cache_service.get returned
cache_get_done(r) ==
    /\ req[r].pc = "cache_get"
    /\ \E store_ok \in BOOLEAN :
       \E res \in cache_service_get(redis, req[r].question, "greenfrog",
                                    TRUE, store_ok) :
         LET cur == [req[r] EXCEPT !.get_failed = ~store_ok,
                                   !.lookup = res.value]
         IN  IF res.raised
             THEN QueryExit(r, cur, "Exception", "cache", None)
             ELSE IF CacheHit(res.value)
             THEN QueryExit(r, cur, "ok", "", StampCached(res.value))
             ELSE /\ req' = [req EXCEPT ![r] =
                        [cur EXCEPT !.pc = "retrieve",
                                    !.calls = @ \cup {"retrieve"}]]
                  /\ UNCHANGED rag
    /\ UNCHANGED redis
    /\ UNCHANGED calls_started
    /\ UNCHANGED <<qvars, svars, hvars, cvars, kvars, ivars, evars>>

\* lines 222-308: hybrid_search returned; no-context answer, or rerank,
\* context and prompt, up to the generation call
retrieve_done(r) ==
    /\ req[r].pc = "retrieve"
    /\ \E embed_ok \in BOOLEAN, sem \in RagSemAnswers, bm \in RagBm25Answers :
         LET cur == [req[r] EXCEPT !.both_empty =
                        /\ embed_ok
                        /\ ~sem.error /\ sem.ids = <<>>
                        /\ ~bm.error /\ bm.ids = <<>>]
             res == hybrid_search(embed_ok, sem, bm, cur.k * 2, RRF_K,
                                  DefaultWeights, cur.min_score)
             use_rr == rag.use_rerank /\ Len(res.docs) > cur.k
             documents == IF use_rr
                          THEN rerank_score_based(res.docs, cur.k, cur.min_score)
                          ELSE Take(res.docs, cur.k)
         IN  IF res.status = "raise"
             THEN QueryExit(r, cur, "Exception", "retrieval", None)
             ELSE IF res.docs = <<>>
             THEN QueryExit(r, cur, "ok", "", build_no_context_response)
             ELSE /\ req' = [req EXCEPT ![r] =
                        [cur EXCEPT
                           !.pc = IF cur.via = "stream_rag_query"
                                  THEN "streaming" ELSE "generate",
                           !.documents = Ids(documents),
                           !.calls = @ \cup {"generate"} \cup
                                     (IF use_rr THEN {"rerank"} ELSE {})]]
                  /\ UNCHANGED rag
    /\ UNCHANGED redis
    /\ UNCHANGED calls_started
    /\ UNCHANGED <<qvars, svars, hvars, cvars, kvars, ivars, evars>>

\* how ollama_service.generate ends: it returns, or raises a connection or
\* status error, or a timeout
GenerationResults == {"ok", "Exception", "httpx.TimeoutException"}

\* mutant: a failed generation is taken for an answer
GenerationFailedNever(result) == FALSE

\* _generate_response lines 453-459: the exception of generate is re-raised
GenerationFailed(result) == result # "ok"

\* rag_service_v2.py lines 357-368: what query raises for an exception of
\* its try block: a ValueError as it is, anything else as a new Exception
\* that carries only the message
query_raises(exc) == IF exc = "ValueError" THEN "ValueError" ELSE "Exception"

\* chat_v2.py lines 365-411: the HTTP status query_rag answers with, by the
\* class of what rag.query returned or raised
query_rag_status(outcome) ==
    CASE outcome = "ok" -> 200
      [] outcome = "ValueError" -> 400
      [] outcome = "TimeoutError" -> 504
      [] OTHER -> 500

\* lines 311-355: the generation call returned or raised
generate_done(r) ==
    /\ req[r].pc = "generate"
    /\ \E result \in GenerationResults, text \in RagTexts :
         LET cur == [req[r] EXCEPT !.generated = result]
             final_response == build_response(text, cur.documents)
         IN  IF GenerationFailed(result)
             THEN QueryExit(r, cur, query_raises(result),
                            IF result = "Exception" THEN "generation" ELSE "timeout",
                            None)
             ELSE IF rag.use_cache
             THEN /\ req' = [req EXCEPT ![r] =
                        [cur EXCEPT !.pc = "cache_set", !.text = text,
                                    !.envelope = final_response,
                                    !.calls = @ \cup {"cache_set"}]]
                  /\ UNCHANGED rag
             ELSE QueryExit(r, [cur EXCEPT !.text = text], "ok", "", final_response)
    /\ UNCHANGED redis
    /\ UNCHANGED calls_started
    /\ UNCHANGED <<qvars, svars, hvars, cvars, kvars, ivars, evars>>

\* lines 342-355: cache_service.set returned
cache_set_done(r) ==
    /\ req[r].pc = "cache_set"
    /\ \E writes \in 0..3 :
         LET res == cache_service_set(redis, req[r].question, req[r].envelope,
                                      "greenfrog", writes)
             cur == [req[r] EXCEPT !.set_failed = ~res.ok]
         IN  /\ redis' = res.store
             /\ IF res.raised
                THEN QueryExit(r, cur, "Exception", "cache", None)
                ELSE QueryExit(r, cur, "ok", "", cur.envelope)
    /\ UNCHANGED calls_started
    /\ UNCHANGED <<qvars, svars, hvars, cvars, kvars, ivars, evars>>

\* token events a request has been sent
TokenFrames(frames) == {i \in 1..Len(frames) : frames[i].kind = "token"}

\* the i-th chunk the model streams for a question: plain text for most,
\* for "q1x" text in which the characters "data: " occur (kept as one
\* element of the string)
StreamToken(question, i) ==
    IF question = "q1x" THEN <<"data: ">> \o RagToken(i) ELSE RagToken(i)

\* _format_sse_event: the text of the event that carries a token (the JSON
\* quoting around the token is left out)
format_sse_event(token) == <<"data: ">> \o token

\* a character that is not the "data: " element
NotDataPrefix(c) == c # "data: "

\* lines 513-515: json.loads(sse_event.replace("data: ", "").strip()) and
\* event_data.get("token"): str.replace removes every occurrence
ParsedToken(sse_event) == SelectSeq(sse_event, NotDataPrefix)

\* rag_service_v2.py lines 501-519 over stream_service.py lines 152-179:
\* the feed yields a token, the event is passed on and accumulated
stream_token(r) ==
    /\ req[r].pc = "streaming"
    /\ Cardinality(TokenFrames(req[r].frames)) < MaxRagFeedLen
    /\ LET token == StreamToken(req[r].question,
                                 Cardinality(TokenFrames(req[r].frames)) + 1)
       IN  req' = [req EXCEPT ![r] =
              [@ EXCEPT !.frames = Append(@, SSEFrame("token", FALSE, token)),
                        !.text = @ \o ParsedToken(format_sse_event(token))]]
    /\ UNCHANGED <<rag, redis>>
    /\ UNCHANGED calls_started
    /\ UNCHANGED <<qvars, svars, hvars, cvars, kvars, ivars, evars>>

\* stream_service.py lines 181-253: the feed ends or raises; stream_response
\* yields its terminal event, which is passed on
stream_terminal(r) ==
    /\ req[r].pc = "streaming"
    /\ \E feed_end \in RagFeedEnds :
         req' = [req EXCEPT ![r] =
            [@ EXCEPT !.pc = "stream_after",
                      !.error = IF feed_end = "ok" THEN "" ELSE "generation",
                      !.frames = IF feed_end = "ok"
                                 THEN Append(@, SSEFrame("stats", TRUE, <<>>))
                                 ELSE @ \o [i \in 1..Len(StreamErrorFrames(feed_end)) |->
                                              SSEFrame("error", TRUE, <<>>)]]]
    /\ UNCHANGED <<rag, redis>>
    /\ UNCHANGED calls_started
    /\ UNCHANGED <<qvars, svars, hvars, cvars, kvars, ivars, evars>>

\* chat_v2.py lines 512-515: the finally block of event_generator
EventGeneratorFinally(r, cur) ==
    /\ req' = [req EXCEPT ![r] = Answered(cur, "stream_end", cur.error, None)]
    /\ rag' = SavedFlags(cur)

\* rag_service_v2.py lines 521-551: after the last event, the accumulated
\* text is cached when caching is on
stream_after(r) ==
    /\ req[r].pc = "stream_after"
    /\ IF rag.use_cache /\ req[r].text # <<>>
       THEN /\ req' = [req EXCEPT ![r] =
                  [@ EXCEPT !.pc = "stream_cache_set",
                            !.envelope = build_response(req[r].text,
                                                        req[r].documents),
                            !.calls = @ \cup {"cache_set"}]]
            /\ UNCHANGED rag
       ELSE EventGeneratorFinally(r, req[r])
    /\ UNCHANGED redis
    /\ UNCHANGED calls_started
    /\ UNCHANGED <<qvars, svars, hvars, cvars, kvars, ivars, evars>>

\* rag_service_v2.py lines 539-562: cache_service.set returned
stream_cache_set_done(r) ==
    /\ req[r].pc = "stream_cache_set"
    /\ \E writes \in 0..3 :
         LET res == cache_service_set(redis, req[r].question, req[r].envelope,
                                      "greenfrog", writes)
             cur == [req[r] EXCEPT !.set_failed = ~res.ok]
         IN  /\ redis' = res.store
             /\ IF res.raised
                THEN /\ req' = [req EXCEPT ![r] =
                          [cur EXCEPT !.pc = "event_generator_close",
                                      !.error = "cache",
                                      !.frames = Append(@, SSEFrame("error", TRUE, <<>>))]]
                     /\ UNCHANGED rag
                ELSE EventGeneratorFinally(r, cur)
    /\ UNCHANGED calls_started
    /\ UNCHANGED <<qvars, svars, hvars, cvars, kvars, ivars, evars>>

\* chat_v2.py lines 501-515: after its error event, event_generator ends
event_generator_close(r) ==
    /\ req[r].pc = "event_generator_close"
    /\ EventGeneratorFinally(r, req[r])
    /\ UNCHANGED redis
    /\ UNCHANGED calls_started
    /\ UNCHANGED <<qvars, svars, hvars, cvars, kvars, ivars, evars>>

\* one step of the request in slot r
RagStep(r) ==
    \/ queue_reject(r)
    \/ query_rag_start(r)
    \/ stream_rag_query_start(r)
    \/ event_generator_start(r)
    \/ direct_query_start(r)
    \/ cache_get_done(r)
    \/ retrieve_done(r)
    \/ generate_done(r)
    \/ cache_set_done(r)
    \/ stream_token(r)
    \/ stream_terminal(r)
    \/ stream_after(r)
    \/ stream_cache_set_done(r)
    \/ event_generator_close(r)

\* the event loop runs the requests of all slots interleaved
RagNext == \E r \in RagRequests : RagStep(r)

RagSpec == RagInit /\ [][RagNext]_vars

\* a client that awaits each answer before it sends the next request
SerialNext == RagStep(1)

SerialSpec == RagInit /\ [][SerialNext]_vars

\* no request is between its start and its end
AllFinished == \A r \in RagRequests : req[r].pc \in {"idle", "done"}

\* C3: once every request that carried overrides has finished, use_cache
\* and use_rerank of the coordinator equal the configured defaults
C3_FlagsRestored == AllFinished => rag = RagDefaults

\* C5: a failure of the cache store never fails query: no request ends with
\* an error of the cache, a failing lookup goes on to retrieval, and after
\* a failing write the caller still has the generated response
C5_CacheFailureTolerated ==
    \A r \in RagRequests :
        /\ req[r].error # "cache"
        /\ req[r].get_failed => "retrieve" \in req[r].calls
        /\ (req[r].set_failed /\ req[r].pc = "done" /\ req[r].via # "stream_rag_query")
              => /\ req[r].outcome = "ok"
                 /\ req[r].envelope.kind = "envelope"
                 /\ ~req[r].envelope.cached
                 /\ {"retrieve", "generate", "cache_set"} \subseteq req[r].calls

C5_Witness ==
    \E r \in RagRequests :
        /\ req[r].pc = "done"
        /\ req[r].get_failed
        /\ req[r].set_failed
        /\ req[r].outcome = "ok"
        /\ req[r].envelope.response \in RagTexts

\* C7: when both sub-searches complete without error and find nothing,
\* query returns the no-context response (source_count = 0,
\* no_context_found = true) and never calls generation
C7_NoDocumentsNoContext ==
    \A r \in RagRequests :
        (req[r].both_empty /\ req[r].via # "stream_rag_query")
            => /\ req[r].pc = "done"
               /\ req[r].outcome = "ok"
               /\ req[r].envelope.no_context_found
               /\ req[r].envelope.source_count = 0
               /\ "generate" \notin req[r].calls

\* the lookup of this query in the cache as it is now would hit
WouldHit(question) ==
    \A res \in cache_service_get(redis, question, "greenfrog", TRUE, TRUE) :
        CacheHit(res.value)

\* C8: after a query that ended in the no-context response with caching
\* enabled, the same query is answered from the cache
C8_NoContextCached ==
    \A r \in RagRequests :
        (/\ req[r].pc = "done"
         /\ req[r].outcome = "ok"
         /\ req[r].envelope.no_context_found
         /\ ~req[r].envelope.cached
         /\ "cache_get" \in req[r].calls)
            => WouldHit(req[r].question)

\* C9: when the cache lookup hits, query returns the cached envelope stamped
\* cached = true with a lookup time, and that call does no retrieval,
\* rerank, generation or cache write
C9_CacheHitShortCircuits ==
    \A r \in RagRequests :
        req[r].lookup.kind = "envelope"
            => /\ req[r].calls = {"cache_get"}
               /\ req[r].pc \in {"done", "event_generator_close"}
               /\ req[r].via # "stream_rag_query"
                    => /\ req[r].outcome = "ok"
                       /\ req[r].envelope = StampCached(req[r].lookup)
                       /\ req[r].envelope.cached
                       /\ req[r].envelope.cache_time_ms

C9_Witness ==
    \E r \in RagRequests :
        /\ req[r].pc = "done"
        /\ req[r].via = "query_rag"
        /\ req[r].question = "q1x"
        /\ req[r].lookup.kind = "envelope"
        /\ req[r].envelope.cached
        /\ req[r].envelope.response \in RagTexts

(***************************************************************************)
(* queue_middleware                                                        *)
(***************************************************************************)
\* mutant: the request is counted as queued before the depth is checked
DepthMetricsCounted(metrics, queue_depth) ==
    [metrics EXCEPT !.current_queue_depth = queue_depth,
                    !.max_queue_depth_seen = Max(@, queue_depth),
                    !.total_queued = @ + 1]

\* lines 66-72: the depth gauges are updated for every request to a queued
\* path, before the depth is checked
DepthMetrics(metrics, queue_depth) ==
    [metrics EXCEPT !.current_queue_depth = queue_depth,
                    !.max_queue_depth_seen = Max(@, queue_depth)]

\* lines 59-107: a request to a queued path runs up to the semaphore
queue_middleware_enter ==
    /\ arrived < NumRequests
    /\ arrived' = arrived + 1
    /\ LET queue_depth == MAX_CONCURRENT_REQUESTS - llm_semaphore.value
           m1 == DepthMetrics(queue_metrics, queue_depth)
           m2 == [m1 EXCEPT !.total_queued = @ + 1]
       IN  IF queue_depth >= max_queue_depth
           THEN \* 429 with Retry-After
                /\ rejected' = rejected + 1
                /\ queue_metrics' = m1
                /\ UNCHANGED <<llm_semaphore, running, acquired>>
           ELSE IF ~SemLocked(llm_semaphore)
           THEN \* slot free: acquire without suspending, wait time 0
                /\ llm_semaphore' = [llm_semaphore EXCEPT !.value = @ - 1]
                /\ acquired' = acquired + 1
                /\ running' = running + 1
                /\ queue_metrics' = m2
                /\ UNCHANGED rejected
           ELSE \* suspend in acquire()
                /\ llm_semaphore' = [llm_semaphore EXCEPT !.waiters = @ + 1]
                /\ queue_metrics' = m2
                /\ UNCHANGED <<rejected, running, acquired>>
    /\ UNCHANGED <<released, finished>>
    /\ UNCHANGED stream_bodies
    /\ UNCHANGED <<svars, hvars, rvars>>

\* line 107 (acquire() resumes after a release handed it a slot) and
\* lines 108-125: wait-time metrics, then the handler is called
queue_middleware_resume ==
    /\ llm_semaphore.woken > 0
    /\ \E wait \in 0..MaxWait :
         queue_metrics' = [queue_metrics EXCEPT
                             !.total_wait_time_ms = @ + wait]
    /\ acquired' = acquired + 1
    /\ LET held == SemWakeUpNext([llm_semaphore EXCEPT !.woken = @ - 1])
       IN  IF queue_metrics.total_queued = 0
           THEN \* lines 112-114: ZeroDivisionError leaves the `async with`
                /\ llm_semaphore' = AsyncWithExit(held, "raise")
                /\ released' = released + SlotsReleased(held, "raise")
                /\ finished' = finished + 1
                /\ UNCHANGED running
           ELSE /\ llm_semaphore' = held
                /\ running' = running + 1
                /\ UNCHANGED <<released, finished>>
    /\ UNCHANGED <<arrived, rejected>>
    /\ UNCHANGED stream_bodies
    /\ UNCHANGED <<svars, hvars, rvars>>

\* lines 124-127: call_next returned a response
call_next_returns ==
    /\ running > 0
    /\ running' = running - 1
    /\ finished' = finished + 1
    /\ queue_metrics' = [queue_metrics EXCEPT !.total_processed = @ + 1]
    /\ llm_semaphore' = AsyncWithExit(llm_semaphore, "return")
    /\ released' = released + SlotsReleased(llm_semaphore, "return")
    /\ UNCHANGED <<arrived, rejected, acquired>>
    /\ UNCHANGED stream_bodies
    /\ UNCHANGED <<svars, hvars, rvars>>

\* lines 124-135: call_next raised; the finally block only logs
call_next_raises ==
    /\ running > 0
    /\ running' = running - 1
    /\ finished' = finished + 1
    /\ llm_semaphore' = AsyncWithExit(llm_semaphore, "raise")
    /\ released' = released + SlotsReleased(llm_semaphore, "raise")
    /\ UNCHANGED <<queue_metrics, arrived, rejected, acquired>>
    /\ UNCHANGED stream_bodies
    /\ UNCHANGED <<svars, hvars, rvars>>

\* line 125: the task is cancelled while awaiting call_next
call_next_cancelled ==
    /\ running > 0
    /\ running' = running - 1
    /\ finished' = finished + 1
    /\ llm_semaphore' = AsyncWithExit(llm_semaphore, "cancel")
    /\ released' = released + SlotsReleased(llm_semaphore, "cancel")
    /\ UNCHANGED <<queue_metrics, arrived, rejected, acquired>>
    /\ UNCHANGED stream_bodies
    /\ UNCHANGED <<svars, hvars, rvars>>

\* line 107: the task is cancelled while suspended in acquire()
acquire_cancelled ==
    /\ \/ /\ llm_semaphore.waiters > 0
          /\ llm_semaphore' = [llm_semaphore EXCEPT !.waiters = @ - 1]
       \/ /\ llm_semaphore.woken > 0
          \* the slot it had been handed goes back
          /\ llm_semaphore' = SemRelease([llm_semaphore EXCEPT !.woken = @ - 1])
    /\ UNCHANGED <<queue_metrics, running, arrived, rejected, acquired,
                   released, finished>>
    /\ UNCHANGED stream_bodies
    /\ UNCHANGED <<svars, hvars, rvars>>

QueueNext ==
    \/ queue_middleware_enter
    \/ queue_middleware_resume
    \/ call_next_returns
    \/ call_next_raises
    \/ call_next_cancelled
    \/ acquire_cancelled

QueueInit ==
    /\ QueueVarsInit
    /\ StreamVarsInit
    /\ HybridVarsInit
    /\ RagVarsInit
    /\ RerankVarsInit
    /\ IndexVarsInit
    /\ EnvVarsInit

QueueSpec == QueueInit /\ [][QueueNext]_vars

\* lines 153-163: reset_queue_metrics, callable at any time
reset_queue_metrics ==
    /\ queue_metrics' = [total_queued |-> 0, total_processed |-> 0,
                         current_queue_depth |-> 0, max_queue_depth_seen |-> 0,
                         total_wait_time_ms |-> 0]
    /\ UNCHANGED <<llm_semaphore, running, arrived, rejected, acquired,
                   released, finished>>
    /\ UNCHANGED stream_bodies
    /\ UNCHANGED <<svars, hvars, rvars>>

\* lines 59-107, for the requests of a run with resets
reset_run_enter ==
    /\ arrived < NumResetRequests
    /\ queue_middleware_enter

\* the middleware in a process that also resets the metrics
QueueResetNext ==
    \/ reset_run_enter
    \/ queue_middleware_resume
    \/ call_next_returns
    \/ call_next_raises
    \/ call_next_cancelled
    \/ acquire_cancelled
    \/ reset_queue_metrics

QueueResetSpec == QueueInit /\ [][QueueResetNext]_vars

(***************************************************************************)
(* Admission control: properties                                           *)
(***************************************************************************)
\* requests holding a slot
InFlight == acquired - released

\* C1: the number of requests that acquired a slot and have not released
\* it never exceeds MAX_CONCURRENT_REQUESTS.
C1_InFlightBounded ==
    /\ InFlight <= MAX_CONCURRENT_REQUESTS
    /\ running + llm_semaphore.woken <= MAX_CONCURRENT_REQUESTS

C1_Witness ==
    /\ InFlight = MAX_CONCURRENT_REQUESTS
    /\ llm_semaphore.waiters > 0
    /\ finished > 0

\* C2: when MAX_CONCURRENT_REQUESTS + MAX_QUEUE_DEPTH + 1 requests have
\* arrived and none has completed, at least one was rejected with 429.
C2_OverloadRejects ==
    (arrived >= MAX_CONCURRENT_REQUESTS + MAX_QUEUE_DEPTH + 1 /\ finished = 0)
        => rejected >= 1

\* C10: every finished wrapped call has released its slot exactly once, and
\* when no admitted request is executing all slots are available.
C10_SlotReleased ==
    /\ released = finished
    /\ (running = 0 /\ llm_semaphore.woken = 0)
          => llm_semaphore.value = MAX_CONCURRENT_REQUESTS

C10_Witness ==
    /\ running = 0
    /\ llm_semaphore.woken = 0
    /\ finished >= 3
    /\ queue_metrics.total_processed < finished

\* lines 59-107, for the requests of a run with streaming responses
stream_run_enter ==
    /\ arrived < NumStreamRequests
    /\ queue_middleware_enter

\* chat_v2.py lines 517-525 under queue.py lines 124-127: stream_rag_query
\* returns its StreamingResponse, call_next returns it, the `async with`
\* block is left; the body has not been iterated yet
stream_call_next_returns ==
    /\ running > 0
    /\ running' = running - 1
    /\ finished' = finished + 1
    /\ stream_bodies' = stream_bodies + 1
    /\ queue_metrics' = [queue_metrics EXCEPT !.total_processed = @ + 1]
    /\ llm_semaphore' = AsyncWithExit(llm_semaphore, "return")
    /\ released' = released + SlotsReleased(llm_semaphore, "return")
    /\ UNCHANGED <<arrived, rejected, acquired>>
    /\ UNCHANGED <<svars, hvars, rvars>>

\* chat_v2.py lines 486-515: the server iterates the body; event_generator
\* runs rag.query (retrieval, generation) up to the terminal frame
event_generator_done ==
    /\ stream_bodies > 0
    /\ stream_bodies' = stream_bodies - 1
    /\ UNCHANGED <<llm_semaphore, queue_metrics, running, arrived, rejected,
                   acquired, released, finished>>
    /\ UNCHANGED <<svars, hvars, rvars>>

\* the middleware in front of /api/v2/chat/stream and /api/v2/chat/query
StreamAdmissionNext ==
    \/ stream_run_enter
    \/ queue_middleware_resume
    \/ call_next_returns
    \/ call_next_raises
    \/ call_next_cancelled
    \/ acquire_cancelled
    \/ stream_call_next_returns
    \/ event_generator_done

StreamAdmissionSpec == QueueInit /\ [][StreamAdmissionNext]_vars

\* pipeline executions in progress: requests holding a slot, and streaming
\* executions whose terminal frame has not been produced
ExecutionsInProgress == InFlight + stream_bodies

\* C12: at most MAX_CONCURRENT_REQUESTS pipeline executions are in progress,
\* a streaming execution counting from admission to its terminal frame
C12_StreamingHoldsSlot == ExecutionsInProgress <= MAX_CONCURRENT_REQUESTS

\* C11: in every reachable state, also after reset_queue_metrics was called
\* while requests were waiting or in flight, total_queued >= total_processed
C11_QueuedAtLeastProcessed ==
    queue_metrics.total_queued >= queue_metrics.total_processed

(***************************************************************************)
(* Direct calls of CacheService: set, get and invalidate in any order      *)
(***************************************************************************)
\* set and invalidate calls of a run
MaxCacheOps == 2

\* the response dict handed to the n-th call
CacheAnswer(n) == build_response(RagToken(n), <<>>)

\* every key but those of (workspace, query) holds what it held before
OthersKept(before, after, query, workspace) ==
    \A h \in HashKeys \ {hash_query(query, workspace)} :
        /\ after.exact[h] = before.exact[h]
        /\ after.embedding[h] = before.embedding[h]
        /\ after.response[h] = before.response[h]

\* CacheService.set (lines 220-276); `count` records how many keys of the
\* pair existed before the call
cache_set_call ==
    /\ cache_ops < MaxCacheOps
    /\ \E query \in CacheQueries, workspace \in Workspaces, writes \in 0..3 :
         LET response == CacheAnswer(cache_ops + 1)
             res == cache_service_set(redis, query, response, workspace, writes)
         IN  /\ redis' = res.store
             /\ cache_call' = [NoCall EXCEPT !.op = "set", !.query = query,
                                             !.workspace = workspace,
                                             !.ok = res.ok, !.stored = response,
                                             !.count = Existing(redis,
                                                 {hash_query(query, workspace)})]
             /\ cache_cleared' = cache_cleared \ {workspace}
    /\ cache_ops' = cache_ops + 1
    /\ UNCHANGED <<rag, req, calls_started, set_calls>>
    /\ UNCHANGED <<qvars, svars, hvars, kvars, ivars, evars>>

\* CacheService.get (lines 131-218); `fresh` records that the call before
\* it was a successful set of the same query and workspace, `count` the
\* count of that set or of a successful invalidate in the same workspace
cache_get_call ==
    /\ \E query \in CacheQueries, workspace \in Workspaces,
          use_semantic \in BOOLEAN, store_ok \in BOOLEAN :
         \E res \in cache_service_get(redis, query, workspace, use_semantic, store_ok) :
            LET fresh == /\ cache_call.op = "set"
                         /\ cache_call.ok
                         /\ cache_call.query = query
                         /\ cache_call.workspace = workspace
                after_invalidate == /\ cache_call.op = "invalidate"
                                    /\ cache_call.ok
                                    /\ cache_call.workspace = workspace
            IN  cache_call' = [NoCall EXCEPT !.op = "get", !.query = query,
                                             !.workspace = workspace,
                                             !.use_semantic = use_semantic,
                                             !.ok = store_ok,
                                             !.fresh = fresh,
                                             !.stored = IF fresh THEN cache_call.stored
                                                        ELSE None,
                                             !.count = IF fresh \/ after_invalidate
                                                       THEN cache_call.count ELSE 0,
                                             !.value = res.value]
    /\ UNCHANGED <<redis, cache_ops, cache_cleared, set_calls>>
    /\ UNCHANGED <<rag, req, calls_started>>
    /\ UNCHANGED <<qvars, svars, hvars, kvars, ivars, evars>>

\* CacheService.invalidate (lines 278-327), with a query or with none;
\* `fresh` records that the keys of no other pair changed
cache_invalidate_call ==
    /\ cache_ops < MaxCacheOps
    /\ \E query \in CacheQueries \cup {NoQuery}, workspace \in Workspaces,
          rounds \in 0..3 :
         LET res == cache_service_invalidate(redis, query, workspace, rounds)
         IN  /\ redis' = res.store
             /\ cache_call' = [NoCall EXCEPT !.op = "invalidate", !.query = query,
                                             !.workspace = workspace,
                                             !.ok = (rounds = 3),
                                             !.fresh = OthersKept(redis, res.store,
                                                                  query, workspace),
                                             !.count = res.count]
             /\ cache_cleared' = IF ~QueryGiven(query) /\ rounds = 3
                                 THEN cache_cleared \cup {workspace}
                                 ELSE cache_cleared
    /\ cache_ops' = cache_ops + 1
    /\ UNCHANGED <<rag, req, calls_started, set_calls>>
    /\ UNCHANGED <<qvars, svars, hvars, kvars, ivars, evars>>

CacheNext ==
    \/ cache_set_call
    \/ cache_get_call
    \/ cache_invalidate_call

CacheSpec == RagInit /\ [][CacheNext]_vars

\* C16: with a reachable store, a get right after a successful set of the
\* same query and workspace returns a response whose answer text is the one
\* just stored, also when keys of the pair existed before; after the set the
\* exact key and the response key of the pair hold the new response only
C16_GetAfterSet ==
    /\ (cache_call.op = "get" /\ cache_call.fresh /\ cache_call.ok) =>
           /\ cache_call.value.kind = "envelope"
           /\ cache_call.value.response = cache_call.stored.response
    /\ (cache_call.op = "set" /\ cache_call.ok) =>
           LET h == hash_query(cache_call.query, cache_call.workspace)
           IN  /\ json_loads(redis.exact[h]) = cache_call.stored
               /\ json_loads(redis.response[h]) = cache_call.stored
               /\ redis.embedding[h] = generate_embedding(cache_call.query)

\* a get right after a set that overwrote the three keys of an earlier entry
C16_Witness ==
    /\ cache_call.op = "get"
    /\ cache_call.fresh
    /\ cache_call.ok
    /\ cache_call.count = 3
    /\ cache_call.value.response = CacheAnswer(2).response
    /\ CacheAnswer(2).response # CacheAnswer(1).response

\* a get that found no exact key and went on to the semantic lookup
SemanticLookup ==
    /\ cache_call.op = "get"
    /\ cache_call.ok
    /\ cache_call.use_semantic
    /\ redis.exact[hash_query(cache_call.query, cache_call.workspace)].kind = "none"

\* the embedding keys of the call's workspace whose similarity to the query
\* is at least the threshold
AtThreshold ==
    {h \in EmbeddingKeys(redis, cache_call.workspace) :
        SimAtLeast(generate_embedding(cache_call.query), redis.embedding[h],
                   SIMILARITY_THRESHOLD)}

C18_InvalidateQueryFrame ==
    (cache_call.op = "invalidate" /\ cache_call.query # NoQuery /\ cache_call.ok) =>
        /\ cache_call.fresh
        /\ Existing(redis, {hash_query(cache_call.query, cache_call.workspace)}) = 0
        /\ \A res \in cache_service_get(redis, cache_call.query,
                                        cache_call.workspace, FALSE, TRUE) :
               res.value.kind = "none"

MaxRerankDocs == 3

\* scores of documents and min_score arguments, in tenths
RerankScores == {3, 7, 9, 12}

RerankMinScores == {0, 5, 7}

\* what a document looks like to _validate_documents: "number", a dict with
\* id, text and a score that is a number; "numeric_string", the same with
\* the score given as a string that float() converts, such as "0.7";
\* "malformed", a field is missing or float() fails on the score
DocumentShapes == {"number", "numeric_string", "malformed"}

\* the documents arguments: a document is identified by its position in the
\* argument
RerankInputs ==
    UNION {{[i \in 1..n |-> [id |-> i, score |-> f[i][1], shape |-> f[i][2]]] :
               f \in [1..n -> RerankScores \X DocumentShapes]} : n \in 0..MaxRerankDocs}

RerankInit ==
    /\ QueueVarsInit
    /\ StreamVarsInit
    /\ HybridVarsInit
    /\ RagVarsInit
    /\ IndexVarsInit
    /\ EnvVarsInit
    /\ rr_documents \in RerankInputs
    /\ rr_top_k \in 0..MaxK
    /\ rr_min_score \in RerankMinScores
    /\ rr_pc = "start"
    /\ rr_result = [status |-> "pending", docs |-> <<>>]

\* lines 50-128: rerank returns or raises
rerank_call ==
    /\ rr_pc = "start"
    /\ rr_pc' = "done"
    /\ rr_result' = rerank(rr_documents, rr_top_k, rr_min_score)
    /\ UNCHANGED <<rr_documents, rr_top_k, rr_min_score>>
    /\ UNCHANGED <<rag, redis, req, calls_started, cvars, ivars, evars>>
    /\ UNCHANGED <<qvars, svars, hvars>>

RerankNext == rerank_call

RerankSpec == RerankInit /\ [][RerankNext]_vars

\* positions of the input documents whose score is at least min_score
Eligible == {i \in 1..Len(rr_documents) : rr_documents[i].score >= rr_min_score}

NotWellFormed(doc) == doc.shape # "number"

\* C21: rerank on a non-empty list raises the validation error, returning
\* no document, whenever a document lacks a field or has a score that is
\* not a number; a list of well-formed documents is never rejected, also
\* when a score lies outside [0, 1]
C21_MalformedRejected ==
    (rr_pc = "done" /\ rr_documents # <<>>) =>
        /\ (\E i \in 1..Len(rr_documents) : NotWellFormed(rr_documents[i])) =>
               (rr_result.status = "ValueError" /\ rr_result.docs = <<>>)
        /\ WellFormedDocuments(rr_documents) => rr_result.status = "return"

\* the empty question and the whitespace-only one
BlankQuestions == {"", " "}

\* the step in which rag.query takes up the question of request r
QueryEntered(r) ==
    /\ req[r].pc \in {"idle", "done", "event_generator"}
    /\ req'[r].pc # req[r].pc
    /\ req'[r].pc # "event_generator"
    /\ req'[r].error # "rejected"

\* C23: rag.query with an empty or whitespace-only question raises the
\* validation error at once: no cache, retrieval, rerank or generation call
\* is made for the request, and the step leaves the cache, the coordinator's
\* flags and the other requests as they were
C23_BlankQuestionRejected ==
    /\ [](\A r \in RagRequests :
            (/\ req[r].question \in BlankQuestions
             /\ req[r].pc \notin {"idle", "event_generator"}
             /\ req[r].error # "rejected") =>
                /\ req[r].error = "validation"
                /\ req[r].calls = {}
                /\ req[r].lookup = None
                /\ req[r].envelope = None
                /\ req[r].via # "stream_rag_query" => req[r].outcome = "ValueError")
    /\ [][\A r \in RagRequests :
            (QueryEntered(r) /\ req'[r].question \in BlankQuestions) =>
                /\ redis' = redis
                /\ rag' = rag
                /\ \A q \in RagRequests \ {r} : req'[q] = req[q]]_vars

\* a direct call with a whitespace-only question was refused while the
\* cache held an entry
C23_Witness ==
    \E r \in RagRequests :
        /\ req[r].pc = "done"
        /\ req[r].via = "direct"
        /\ req[r].question = " "
        /\ req[r].outcome = "ValueError"
        /\ req[r].calls = {}
        /\ redis.exact[hash_query("q1", "greenfrog")].kind # "none"

\* the concatenation, in order, of the tokens of the token frames
RECURSIVE EmittedText(_)
EmittedText(frames) ==
    IF frames = <<>> THEN <<>>
    ELSE IF Head(frames).kind = "token"
         THEN Head(frames).token \o EmittedText(Tail(frames))
         ELSE EmittedText(Tail(frames))

\* a streaming execution that ended with the stats frame and whose cache
\* write was made and went through
StreamedAndCached(r) ==
    /\ req[r].pc = "done"
    /\ req[r].via = "stream_rag_query"
    /\ req[r].frames # <<>>
    /\ req[r].frames[Len(req[r].frames)].kind = "stats"
    /\ "cache_set" \in req[r].calls
    /\ ~req[r].set_failed

\* C24: after a streaming execution that produced its successful terminal
\* frame, was consumed to the end and wrote the cache, the entry of
\* (question, workspace) holds as answer text the concatenation, in order,
\* of the tokens of the token frames
C24_StreamedAnswerCached ==
    \A r \in RagRequests :
        StreamedAndCached(r) =>
            LET entry == redis.exact[hash_query(req[r].question, "greenfrog")]
            IN  /\ entry.kind # "none"
                /\ json_loads(entry).response = EmittedText(req[r].frames)

\* a non-streaming query whose generation call failed, and that has ended
GenerationFailure(r) ==
    /\ req[r].pc = "done"
    /\ req[r].via # "stream_rag_query"
    /\ req[r].generated \in GenerationResults \ {"ok"}

C26_TimeoutDistinguished ==
    \A r \in RagRequests :
        (/\ req[r].pc = "done"
         /\ req[r].via = "query_rag"
         /\ req[r].generated = "httpx.TimeoutException")
            => query_rag_status(req[r].outcome) = 504

\* the request got exactly one terminal frame, after every other frame
OneTerminalFrame(r) ==
    /\ req[r].frames # <<>>
    /\ TerminalFrames(req[r].frames) = {Len(req[r].frames)}

\* the request got one structured response and no frame: the envelope of an
\* answer, or the status of a failure or of the rejection
OneStructuredResponse(r) ==
    /\ req[r].frames = <<>>
    /\ req[r].outcome \in {"ok", "ValueError", "Exception", "429"}
    /\ req[r].outcome = "ok" <=> req[r].envelope # None

AnsweredAsFrames(r) ==
    /\ req[r].frames # <<>>
    /\ \A i \in 1..Len(req[r].frames) : req[r].frames[i].kind # "error"
    /\ req[r].error = ""

\* C29: a streaming request whose lookup hit the cache, or whose retrieval
\* found no document, gets the cached or the no-context answer as frames and
\* not as an error
C29_StreamOnEveryPath ==
    \A r \in RagRequests :
        (/\ req[r].pc = "done"
         /\ req[r].via = "stream_rag_query"
         /\ req[r].lookup.kind = "envelope" \/ req[r].both_empty)
            => AnsweredAsFrames(r)

\* C30: consulting the cache and writing the cache depend on one setting,
\* the default or the request's own override; so a query through query_rag
\* whose generation succeeded wrote the cache if and only if it had consulted
\* it, whatever overrides the requests running beside it carried
C30_OwnOverridesOnly ==
    \A r \in RagRequests :
        (/\ req[r].pc = "done"
         /\ req[r].via = "query_rag"
         /\ req[r].generated = "ok")
            => ("cache_get" \in req[r].calls <=> "cache_set" \in req[r].calls)

(***************************************************************************)
(* the keyword index of RetrievalService (retrieval_service.py)            *)
(***************************************************************************)
\* records the collection holds at most
MaxCorpus == 2

\* the text of a record stored without document text: collection.get gives
\* None for it, which is not a string
NoText == <<"None">>

\* document texts, as their whitespace-separated words
CorpusTexts == {<<"Frog">>, <<"pond">>, NoText}

\* what the collection can hold
Collections ==
    UNION {{[i \in 1..n |-> [id |-> i, text |-> f[i]]] : f \in [1..n -> CorpusTexts]} :
              n \in 0..MaxCorpus}

\* str.lower
lower(word) == IF word = "Frog" THEN "frog" ELSE word

\* _tokenize, lines 108-118: text.lower().split()
tokenize(text) == [i \in 1..Len(text) |-> lower(text[i])]

\* lines 171-173: the tokenized corpus of a document list
TokenizedCorpus(documents) ==
    [i \in 1..Len(documents) |-> tokenize(documents[i].text)]

\* load_documents, lines 120-188: the fields after the call and whether it
\* raised. The document list is replaced before the corpus is tokenized and
\* the index built; a text that is None makes _tokenize raise in between
load_documents(self, collection, force_reload, get_ok) ==
    IF self.documents_loaded /\ ~force_reload
    THEN [self |-> self, raised |-> FALSE]
    ELSE IF ~get_ok
    THEN [self |-> self, raised |-> TRUE]
    ELSE IF collection = <<>>
    THEN [self |-> self, raised |-> FALSE]
    ELSE LET replaced == [self EXCEPT !.documents = collection]
         IN  IF \E i \in 1..Len(collection) : collection[i].text = NoText
             THEN [self |-> replaced, raised |-> TRUE]
             ELSE [self |-> [replaced EXCEPT
                               !.tokenized_corpus = TokenizedCorpus(collection),
                               !.bm25_index = [built |-> TRUE,
                                               corpus |-> TokenizedCorpus(collection)],
                               !.documents_loaded = TRUE],
                   raised |-> FALSE]

\* a row of the index scores above 0 for the query when it holds one of
\* the query's tokens
Scores(row, tokenized_query) ==
    \E i \in 1..Len(row), j \in 1..Len(tokenized_query) : row[i] = tokenized_query[j]

RECURSIVE Results(_, _, _, _)
\* lines 308-327: the documents at the positions of the scoring rows, from
\* position idx on; positions past the end of the document list are skipped
Results(self, tokenized_query, idx, limit) ==
    IF idx > limit THEN <<>>
    ELSE (IF /\ idx <= Len(self.documents)
             /\ Scores(self.bm25_index.corpus[idx], tokenized_query)
          THEN <<self.documents[idx]>> ELSE <<>>)
         \o Results(self, tokenized_query, idx + 1, limit)

\* ingestion into the collection by another process
collection_change ==
    /\ \E collection \in Collections \ {chroma} : chroma' = collection
    /\ reload_seen' = NotReloaded
    /\ UNCHANGED <<retrieval, bm25_seen>>
    /\ UNCHANGED <<rag, redis, req, calls_started, cvars, kvars, evars>>
    /\ UNCHANGED <<qvars, svars, hvars>>

\* routers/retrieval.py lines 167-189: load_documents(force_reload=True);
\* `reload_seen` records whether the call returned (status 200) or raised
\* (status 500)
reload_documents ==
    /\ \E get_ok \in BOOLEAN :
         LET res == load_documents(retrieval, chroma, TRUE, get_ok)
         IN  /\ retrieval' = res.self
             /\ reload_seen' = IF res.raised THEN "raised" ELSE "returned"
    /\ UNCHANGED <<chroma, bm25_seen>>
    /\ UNCHANGED <<rag, redis, req, calls_started, cvars, kvars, evars>>
    /\ UNCHANGED <<qvars, svars, hvars>>

\* queries of the keyword search
CorpusQueries == {<<"frog">>, <<"Pond">>, <<"pond">>}

\* _bm25_search, lines 274-335, with k at least the size of the corpus
bm25_search ==
    /\ \E query \in CorpusQueries, get_ok \in BOOLEAN :
         LET loaded == IF retrieval.documents_loaded
                       THEN [self |-> retrieval, raised |-> FALSE]
                       ELSE load_documents(retrieval, chroma, FALSE, get_ok)
             self == loaded.self
             results == IF loaded.raised \/ ~self.bm25_index.built
                        THEN <<>>
                        ELSE Results(self, tokenize(query), 1,
                                     Len(self.bm25_index.corpus))
         IN  /\ retrieval' = self
             /\ bm25_seen' =
                  IF loaded.raised \/ ~self.bm25_index.built
                  THEN [NotSearched EXCEPT !.query = query]
                  ELSE [searched |-> TRUE, query |-> query,
                        documents |-> self.documents,
                        tokenized_corpus |-> self.tokenized_corpus,
                        corpus |-> self.bm25_index.corpus,
                        results |-> results]
    /\ reload_seen' = NotReloaded
    /\ UNCHANGED chroma
    /\ UNCHANGED <<rag, redis, req, calls_started, cvars, kvars, evars>>
    /\ UNCHANGED <<qvars, svars, hvars>>

IndexInit ==
    /\ QueueVarsInit
    /\ StreamVarsInit
    /\ HybridVarsInit
    /\ RagVarsInit
    /\ RerankVarsInit
    /\ IndexVarsInit
    /\ EnvVarsInit

IndexNext ==
    \/ collection_change
    \/ reload_documents
    \/ bm25_search

IndexSpec == IndexInit /\ [][IndexNext]_vars

\* C27: the document list, the tokenized corpus and the BM25 index a keyword
\* search works on are those of one load, whole: the corpus is the
\* tokenization of the documents, the index is built from that corpus, also
\* after a reload that failed midway; so every document returned holds a
\* token of the query
C27_IndexWhole ==
    bm25_seen.searched =>
        /\ \A i \in 1..Len(bm25_seen.documents) : bm25_seen.documents[i].text # NoText
        /\ bm25_seen.tokenized_corpus = TokenizedCorpus(bm25_seen.documents)
        /\ bm25_seen.corpus = bm25_seen.tokenized_corpus
        /\ \A i \in 1..Len(bm25_seen.results) :
               Scores(tokenize(bm25_seen.results[i].text), tokenize(bm25_seen.query))

\* C31: a streaming execution whose generation failed after tokens had been
\* emitted makes no cache write: the partial text is not stored and a later
\* identical query is not answered from it
C31_PartialStreamNotCached ==
    \A r \in RagRequests :
        (/\ req[r].pc = "done"
         /\ req[r].via = "stream_rag_query"
         /\ req[r].error = "generation"
         /\ TokenFrames(req[r].frames) # {})
            => /\ "cache_set" \notin req[r].calls
               /\ "cache_get" \in req[r].calls /\ ~req[r].get_failed
                     => ~WouldHit(req[r].question)

\* C32: when the query embedding cannot be computed while the keyword index
\* answers with at least one document, hybrid_search returns keyword results
\* instead of raising
C32_EmbeddingFailureDegrades ==
    (/\ hs_pc = "done"
     /\ ~hs_embed_ok
     /\ ~hs_index_bm25.error
     /\ hs_index_bm25.ids # <<>>)
        => /\ hs_result.status = "ok"
           /\ hs_min_score = 0 => hs_result.docs # <<>>

(***************************************************************************)
(* queue_middleware with MAX_QUEUE_DEPTH set in the environment            *)
(***************************************************************************)
\* requests of a run with a configured depth limit
NumLimitedRequests == 6

\* values of MAX_QUEUE_DEPTH: below the number of slots, equal to it, and
\* the default
QueueDepthSettings == {1, MAX_CONCURRENT_REQUESTS, MAX_QUEUE_DEPTH}

LimitedQueueInit ==
    /\ QueueVarsInit
    /\ StreamVarsInit
    /\ HybridVarsInit
    /\ RagVarsInit
    /\ RerankVarsInit
    /\ IndexVarsInit
    /\ max_queue_depth \in QueueDepthSettings

\* lines 59-107, for the requests of a run with a configured limit
limited_run_enter ==
    /\ arrived < NumLimitedRequests
    /\ queue_middleware_enter

LimitedQueueNext ==
    \/ limited_run_enter
    \/ queue_middleware_resume
    \/ call_next_returns
    \/ call_next_raises
    \/ call_next_cancelled
    \/ acquire_cancelled

LimitedQueueSpec == LimitedQueueInit /\ [][LimitedQueueNext]_vars

\* C33: the step in which a request is rejected acquires no slot and calls no
\* handler: the semaphore, the requests holding or running under a slot,
\* total_queued, total_processed and total_wait_time_ms are as before
C33_RejectionLeavesQueue ==
    [][rejected' # rejected =>
          /\ rejected' = rejected + 1
          /\ llm_semaphore' = llm_semaphore
          /\ acquired' = acquired
          /\ running' = running
          /\ queue_metrics'.total_queued = queue_metrics.total_queued
          /\ queue_metrics'.total_processed = queue_metrics.total_processed
          /\ queue_metrics'.total_wait_time_ms = queue_metrics.total_wait_time_ms]_vars

\* a request was rejected while admitted requests held every slot and an
\* earlier one had been processed
C33_Witness ==
    /\ rejected > 0
    /\ llm_semaphore.value = 0
    /\ running = MAX_CONCURRENT_REQUESTS
    /\ queue_metrics.total_processed > 0
    /\ queue_metrics.total_queued = arrived - rejected

\* C34: the number of admitted requests suspended in acquire(), waiting for
\* a slot, never exceeds the configured maximum queue depth
C34_WaitersBounded == llm_semaphore.waiters <= max_queue_depth

\* the event loop runs every task that is ready, and every wrapped call ends:
\* a woken waiter resumes, a running handler returns, raises or is cancelled
FairQueueSpec ==
    /\ LimitedQueueSpec
    /\ WF_vars(queue_middleware_resume)
    /\ WF_vars(call_next_returns \/ call_next_raises \/ call_next_cancelled)

\* admitted requests that do not hold a slot yet: suspended in acquire(), or
\* handed a slot and not resumed
Waiting == llm_semaphore.waiters + llm_semaphore.woken

C36_ProcessedCountsFinished ==
    /\ queue_metrics.total_processed = finished
    /\ (Waiting = 0 /\ running = 0) =>
           queue_metrics.total_processed = queue_metrics.total_queued

\* C37: an invalidation of a whole workspace that reached the store leaves
\* no exact-match key in any workspace, and an exact-only get answers from
\* the exact-match key alone; so after set(q, r, W2) and
\* invalidate(workspace=W1), get(q, W2, use_semantic=false) misses
C37_InvalidationNotIsolated ==
    /\ (cache_call.op = "invalidate" /\ cache_call.ok
            /\ ~QueryGiven(cache_call.query)) =>
           \A h \in HashKeys : redis.exact[h].kind = "none"
    /\ (cache_call.op = "get" /\ cache_call.ok /\ ~cache_call.use_semantic) =>
           (cache_call.value.kind = "none"
                <=> redis.exact[hash_query(cache_call.query,
                                           cache_call.workspace)].kind = "none")

\* an exact-only get in workspace docs misses although the response key of
\* its query, written by a set in docs, is still there: the invalidation of
\* workspace greenfrog deleted the exact-match key
C37_Witness ==
    /\ cache_call.op = "get"
    /\ cache_call.ok
    /\ ~cache_call.use_semantic
    /\ cache_call.workspace = "docs"
    /\ cache_call.value.kind = "none"
    /\ redis.response[hash_query(cache_call.query, "docs")].kind # "none"
    /\ cache_cleared = {"greenfrog"}

\* C38: after a set that reported failure, no get of the same query and
\* workspace, exact or semantic, returns the response of that set
C38_FailedSetInvisible ==
    (cache_call.op = "set" /\ ~cache_call.ok) =>
        \A use_semantic \in BOOLEAN :
            \A res \in cache_service_get(redis, cache_call.query,
                                         cache_call.workspace, use_semantic, TRUE) :
                \/ res.value.kind = "none"
                \/ res.value.response # cache_call.stored.response

(***************************************************************************)
(* Concurrent calls of CacheService.set (cache_service.py lines 220-276)   *)
(* Each `await r.setex(...)` is one command of the store; other coroutines *)
(* run between two of them.                                                *)
(***************************************************************************)
\* the response argument of call i
SetResponse(i) == CacheAnswer(i)

\* lines 239-240: the call starts with its arguments and gets the client
set_begin(i) ==
    /\ set_calls[i].pc = "idle"
    /\ \E query \in CacheQueries \ {""}, workspace \in Workspaces :
         set_calls' = [set_calls EXCEPT ![i] =
             [pc |-> "exact", query |-> query, workspace |-> workspace, ok |-> FALSE]]
    /\ UNCHANGED <<redis, cache_call, cache_ops, cache_cleared>>
    /\ UNCHANGED <<rag, req, calls_started>>
    /\ UNCHANGED <<qvars, svars, hvars, kvars, ivars, evars>>

\* lines 243-247: setex of the exact-match key
set_exact(i) ==
    /\ set_calls[i].pc = "exact"
    /\ redis' = [redis EXCEPT
           !.exact[hash_query(set_calls[i].query, set_calls[i].workspace)] =
               json_dumps(SetResponse(i))]
    /\ set_calls' = [set_calls EXCEPT ![i].pc = "embedding"]
    /\ UNCHANGED <<cache_call, cache_ops, cache_cleared>>
    /\ UNCHANGED <<rag, req, calls_started>>
    /\ UNCHANGED <<qvars, svars, hvars, kvars, ivars, evars>>

\* lines 250-258: the embedding is computed and setex writes its key
set_embedding(i) ==
    /\ set_calls[i].pc = "embedding"
    /\ redis' = [redis EXCEPT
           !.embedding[hash_query(set_calls[i].query, set_calls[i].workspace)] =
               generate_embedding(set_calls[i].query)]
    /\ set_calls' = [set_calls EXCEPT ![i].pc = "response"]
    /\ UNCHANGED <<cache_call, cache_ops, cache_cleared>>
    /\ UNCHANGED <<rag, req, calls_started>>
    /\ UNCHANGED <<qvars, svars, hvars, kvars, ivars, evars>>

\* lines 259-271: setex of the response key, then `return True`
set_response(i) ==
    /\ set_calls[i].pc = "response"
    /\ redis' = [redis EXCEPT
           !.response[hash_query(set_calls[i].query, set_calls[i].workspace)] =
               json_dumps(SetResponse(i))]
    /\ set_calls' = [set_calls EXCEPT ![i].pc = "done", ![i].ok = TRUE]
    /\ UNCHANGED <<cache_call, cache_ops, cache_cleared>>
    /\ UNCHANGED <<rag, req, calls_started>>
    /\ UNCHANGED <<qvars, svars, hvars, kvars, ivars, evars>>

\* lines 274-276: the store or the embedding step raises at one of the
\* awaits; the error is logged and False is returned
set_fails(i) ==
    /\ set_calls[i].pc \in {"exact", "embedding", "response"}
    /\ set_calls' = [set_calls EXCEPT ![i].pc = "done", ![i].ok = CacheSetError]
    /\ UNCHANGED <<redis, cache_call, cache_ops, cache_cleared>>
    /\ UNCHANGED <<rag, req, calls_started>>
    /\ UNCHANGED <<qvars, svars, hvars, kvars, ivars, evars>>

ConcurrentSetNext ==
    \E i \in SetCalls :
        \/ set_begin(i)
        \/ set_exact(i)
        \/ set_embedding(i)
        \/ set_response(i)
        \/ set_fails(i)

ConcurrentSetSpec == RagInit /\ [][ConcurrentSetNext]_vars

\* C39: once two calls of set for the same query and workspace have both
\* returned True, the exact-match key and the response key of the pair hold
\* the same response
C39_ConcurrentSetsAgree ==
    \A i, j \in SetCalls :
        (/\ i # j
         /\ set_calls[i].pc = "done" /\ set_calls[i].ok
         /\ set_calls[j].pc = "done" /\ set_calls[j].ok
         /\ set_calls[i].query = set_calls[j].query
         /\ set_calls[i].workspace = set_calls[j].workspace
         /\ \A k \in SetCalls : set_calls[k].pc \in {"idle", "done"}) =>
            LET h == hash_query(set_calls[i].query, set_calls[i].workspace)
            IN  json_loads(redis.exact[h]) = json_loads(redis.response[h])

\* C40: right after a reload that returned without error the keyword index
\* holds exactly the documents the collection lists, and the index is built
\* from them; an empty collection leaves an empty index
C40_ReloadMirrorsCollection ==
    reload_seen = "returned" =>
        /\ retrieval.documents = chroma
        /\ retrieval.bm25_index.corpus = TokenizedCorpus(chroma)

====
